---- MODULE Spec2Model ----
(***************************************************************************)
(* Model of the sitemap crawl job of Sitemap_Service/sitemap_api.py:       *)
(* SitemapGenerator (crawl_recursive, get_page_links, crawl_site,          *)
(* build_hierarchical_sitemap, generate_sitemap) run by one worker thread, *)
(* and the /status/<job_id> handler polling the job concurrently.          *)
(*                                                                         *)
(* A URL string is held parsed, as urllib.parse.urlparse splits it:        *)
(*   scheme://host/seg1/seg2[/]?query#frag                                 *)
(* path is the sequence of path segments, slash says whether the path ends *)
(* with "/" (for an empty path: whether the path is "/" rather than "").   *)
(* Two URL strings are equal exactly when their records are equal.         *)
(***************************************************************************)
EXTENDS Integers, Sequences, FiniteSets, TLC

\* ------------------------------------------------------------------ bounds
\* largest max_depth a job is submitted with (0..MaxDepth)
MaxDepth == 3
\* number of page renders / discovery fetches that may fail during one job
MaxFailures == 1
\* number of /status polls issued while the job exists
MaxPolls == 2
\* number of /generate-sitemap requests the service receives
MaxJobs == 2

\* ------------------------------------------------------------------ URLs
Url(h, p, s) == [scheme |-> "https", host |-> h, path |-> p, slash |-> s,
                 query |-> "", frag |-> ""]

NoUrl == [scheme |-> "", host |-> "", path |-> <<>>, slash |-> FALSE,
          query |-> "", frag |-> ""]

BaseHost == "x.com"

RootUrl  == Url(BaseHost, <<>>, FALSE)                \* https://x.com
HomeUrl  == Url(BaseHost, <<>>, TRUE)                 \* https://x.com/
PageA    == Url(BaseHost, <<"a">>, FALSE)             \* https://x.com/a
PageA1   == Url(BaseHost, <<"a", "1">>, FALSE)        \* https://x.com/a/1
PageA1x  == Url(BaseHost, <<"a", "1", "x">>, FALSE)   \* https://x.com/a/1/x
Blogs    == Url(BaseHost, <<"blogs">>, FALSE)         \* https://x.com/blogs
PostP1   == Url(BaseHost, <<"blogs", "p1">>, FALSE)   \* https://x.com/blogs/p1
PostP2   == Url(BaseHost, <<"blogs", "p2">>, FALSE)   \* https://x.com/blogs/p2
Landing  == Url(BaseHost, <<"landing", "promo">>, FALSE) \* https://x.com/landing/promo
Logo     == Url(BaseHost, <<"logo.png">>, FALSE)      \* https://x.com/logo.png
External == Url("y.com", <<"z">>, FALSE)              \* https://y.com/z
MailTo   == [NoUrl EXCEPT !.scheme = "mailto", !.path = <<"me">>]
AFrag    == [PageA EXCEPT !.frag = "top"]             \* https://x.com/a#top
SitemapXml == Url(BaseHost, <<"sitemap.xml">>, FALSE) \* https://x.com/sitemap.xml
Hidden   == Url(BaseHost, <<"blogs", "hidden">>, FALSE) \* https://x.com/blogs/hidden
\* "http://[bad": a string urlparse and urljoin raise ValueError on
BadUrl   == [NoUrl EXCEPT !.scheme = "http", !.host = "[bad"]

\* the base URLs a job is submitted with
BaseUrls == {RootUrl, PageA, Landing}

\* a second site: base https://example.test
ExHost   == "example.test"
ExRoot   == Url(ExHost, <<>>, FALSE)                  \* https://example.test
ExA      == Url(ExHost, <<"a">>, FALSE)               \* https://example.test/a
ExA1     == Url(ExHost, <<"a", "1">>, FALSE)          \* https://example.test/a/1
ExBlogs  == Url(ExHost, <<"blogs">>, FALSE)           \* https://example.test/blogs
ExP1     == Url(ExHost, <<"blogs", "p1">>, FALSE)     \* https://example.test/blogs/p1
ExP2     == Url(ExHost, <<"blogs", "p2">>, FALSE)     \* https://example.test/blogs/p2

\* a third site, with a query string, a plain-http link and a section whose
\* name contains "blogs"
TreeHost  == "t.test"
TRoot     == Url(TreeHost, <<>>, FALSE)               \* https://t.test
TDocs     == Url(TreeHost, <<"docs">>, FALSE)         \* https://t.test/docs
TDocsQ    == [TDocs EXCEPT !.query = "v=2"]           \* https://t.test/docs?v=2
TGuide    == Url(TreeHost, <<"docs", "guide">>, FALSE) \* https://t.test/docs/guide
TSetup    == Url(TreeHost, <<"docs", "guide", "setup">>, FALSE) \* .../guide/setup
TMyBlogs  == Url(TreeHost, <<"myblogs">>, FALSE)      \* https://t.test/myblogs
TMyBlogsX == Url(TreeHost, <<"myblogs", "x">>, FALSE) \* https://t.test/myblogs/x
TZeta     == [Url(TreeHost, <<"zeta">>, FALSE) EXCEPT !.scheme = "http"] \* http://t.test/zeta
TreeBases == {TRoot, TSetup}

\* a fourth site, whose host name contains "blogs"
BlogHost == "blogs.test"
BRoot    == Url(BlogHost, <<>>, FALSE)                \* https://blogs.test
BAbout   == Url(BlogHost, <<"about">>, FALSE)         \* https://blogs.test/about
BTeam    == Url(BlogHost, <<"about", "team">>, FALSE) \* https://blogs.test/about/team
BNews    == Url(BlogHost, <<"blogs", "n1">>, FALSE)   \* https://blogs.test/blogs/n1
BBio     == Url(BlogHost, <<"about", "team", "bio">>, FALSE) \* .../about/team/bio
\* https://blogs.test/logo.png?v=2 and https://blogs.test/dl?f=a.zip
BLogoV   == [Url(BlogHost, <<"logo.png">>, FALSE) EXCEPT !.query = "v=2"]
BDl      == [Url(BlogHost, <<"dl">>, FALSE) EXCEPT !.query = "f=a.zip"]

\* --------------------------------------------------- substring predicates
\* tokens (host, path segment, query) that contain the text "blogs" / "blog"
TokHasBlogs(t) == t \in {"blogs", "myblogs", "blogs.test"}
TokHasBlog(t)  == TokHasBlogs(t) \/ t \in {"blog", "blog.test"}
\* tokens that end with one of the static-asset extensions of lines 105, 131
TokEndsAsset(t) == t \in {"logo.png", "app.js", "f=a.zip"}
\* query strings that contain the text "/blogs/"
QueryHasBlogsSeg(q) == q \in {"next=/blogs/x"}

\* 'blogs' in url
BlogsInUrl(u) ==
    \/ TokHasBlogs(u.host)
    \/ \E i \in 1..Len(u.path) : TokHasBlogs(u.path[i])
    \/ TokHasBlogs(u.query) \/ QueryHasBlogsSeg(u.query)

\* '/blogs/' in link
SlashBlogsSlashIn(u) ==
    \/ \E i \in 1..Len(u.path) :
          u.path[i] = "blogs" /\ (i < Len(u.path) \/ u.slash)
    \/ u.host = "blogs" /\ (Len(u.path) > 0 \/ u.slash)
    \/ QueryHasBlogsSeg(u.query)

\* 'blogs' in parent_path or 'blog' in parent_path
BlogInPath(p) ==
    \/ \E i \in 1..Len(p) : TokHasBlogs(p[i])
    \/ \E i \in 1..Len(p) : TokHasBlog(p[i])

\* clean_url.endswith(('.jpg', '.png', ...)): the last token of the string
EndsWithAsset(u) ==
    IF u.query # "" THEN TokEndsAsset(u.query)
    ELSE IF u.slash THEN FALSE
    ELSE IF Len(u.path) > 0 THEN TokEndsAsset(u.path[Len(u.path)])
    ELSE FALSE

\* ------------------------------------------------------- DomainClassifier
\* urllib.parse.urlparse(url) raises ValueError ("Invalid IPv6 URL")
parse_fails(u) == u.host = "[bad"

\* variant of is_same_domain: every URL that parses is accepted
is_same_domain_any(base, u) == ~parse_fails(base) /\ ~parse_fails(u)

\* lines 151-158: the netlocs are compared; the bare except returns False
is_same_domain(base, u) ==
    IF parse_fails(base) \/ parse_fails(u) THEN FALSE ELSE base.host = u.host

IsStrictPrefix(p, c) ==
    /\ Len(p) < Len(c)
    /\ \A i \in 1..Len(p) : p[i] = c[i]

\* variant of is_child_of: every URL of the same host is a child
is_child_of_same_host(parent, child) == parent.host = child.host

\* variant of is_child_of: every section accepts descendants at any depth
is_child_of_any_depth(parent, child) ==
    IF parent.host # child.host THEN FALSE
    ELSE IF parent.path = <<>> THEN child.path # <<>>
    ELSE IsStrictPrefix(parent.path, child.path)

is_child_of(parent, child) ==
    IF parent.host # child.host THEN FALSE
    ELSE IF parent.path = <<>> THEN child.path # <<>>
    ELSE IF ~IsStrictPrefix(parent.path, child.path) THEN FALSE
    ELSE IF BlogInPath(parent.path) THEN TRUE
    ELSE Len(child.path) = Len(parent.path) + 1

\* --------------------------------------------------------------- the site
\* The a[href] elements of each page in document order, as resolved by
\* urljoin; a URL the site does not serve renders as a page without links.
Hrefs(u) ==
    CASE u = RootUrl -> <<HomeUrl, PageA, Blogs, External, AFrag, Logo, MailTo>>
      [] u = HomeUrl -> <<HomeUrl, PageA, Blogs, External, AFrag, Logo, MailTo>>
      [] u = PageA   -> <<PageA1, PageA, PageA1x>>
      [] u = PageA1  -> <<PageA, PageA1x>>
      [] u = Blogs   -> <<PostP1, PageA>>
      [] u = PostP1  -> <<PostP2, Blogs>>
      [] u = PostP2  -> <<Blogs>>
      [] u = Landing -> <<PageA, BadUrl, Blogs>>
      [] u = ExRoot  -> <<ExA, ExBlogs>>
      [] u = ExA     -> <<ExA1>>
      [] u = ExBlogs -> <<ExP1, ExP2>>
      [] u = TRoot   -> <<TDocs, TDocsQ, TMyBlogs, TZeta>>
      [] u = TDocs   -> <<TGuide, TSetup>>
      [] u = BRoot   -> <<BAbout, BTeam>>
      [] u = BAbout  -> <<BTeam, BNews>>
      [] u = BNews   -> <<BRoot>>
      [] u = BTeam   -> <<BLogoV, BDl, BAbout, BBio>>
      [] OTHER       -> <<>>

\* the a[href] elements that appear only after scrolling to the bottom
LazyHrefs(u) ==
    CASE u = Blogs -> <<PostP2>>
      [] OTHER     -> <<>>

\* the <loc> entries of /sitemap.xml and the Sitemap: lines of /robots.txt
SitemapLocs == <<BadUrl, Hidden, External, TMyBlogsX, TGuide>>
RobotsSitemaps == <<SitemapXml>>

Take(seq, k) == SubSeq(seq, 1, k)
Range(seq) == {seq[i] : i \in 1..Len(seq)}

\* ------------------------------------------------------ PageLinkExtractor
\* urlunparse((scheme, netloc, path, params, query, ''))
clean_url(u) == [u EXCEPT !.frag = ""]

\* the filter of lines 94-107 (and 121-133) applied to one href
keep_link(base, url, href) ==
    /\ is_same_domain(base, href)
    /\ clean_url(href).scheme \in {"http", "https"}
    /\ clean_url(href) # url
    /\ ~EndsWithAsset(clean_url(href))
    /\ clean_url(href).frag = ""

\* urls after iterating the link elements `elems`
extract(base, url, elems) ==
    {clean_url(h) : h \in {x \in Range(elems) : keep_link(base, url, x)}}

\* variant of caught_in_get_page_links: only TimeoutException is handled
caught_timeout_only(kind) == kind = "timeout"

\* The exception handlers of get_page_links: TimeoutException (line 144) and
\* every other Exception (line 147) are caught inside the method.
caught_in_get_page_links(kind) == kind \in {"timeout", "error"}

\* variant of get_page_links: the outer handlers return the urls of the page
\* instead of set()
get_page_links_keeping(base, url) ==
    {[kind |-> "ok", links |-> extract(base, url, Hrefs(url) \o LazyHrefs(url))]}
    \cup {[kind |-> k, links |-> extract(base, url, Hrefs(url))] :
             k \in {"timeout", "error"}}

Min(a, b) == IF a <= b THEN a ELSE b

\* how many elements of `elems` the loop of line 92 handles before urljoin
\* raises on a malformed href (all of them when there is none)
handled(elems) ==
    IF \E i \in 1..Len(elems) : parse_fails(elems[i])
      THEN (CHOOSE i \in 1..Len(elems) :
              /\ parse_fails(elems[i])
              /\ \A j \in 1..(i - 1) : ~parse_fails(elems[j])) - 1
      ELSE Len(elems)

\* Every result one call get_page_links(url) can have.
\*   ok            the whole method ran
\*   timeout/error driver.get or the wait for <body> raised: set()
\*   extract_error an element of the first pass raised (line 140): urls so far
\*   scroll_error  the scroll step or an element after it raised (line 136)
\*   href_error    urljoin (line 95 or 122) raised on a malformed href: the
\*                 handler of line 140 or 136 keeps the urls so far
get_page_links(base, url) ==
    LET first == Hrefs(url)
        more  == Hrefs(url) \o LazyHrefs(url)
        n1    == handled(first)
        n2    == handled(more)
        urls1 == extract(base, url, Take(first, n1))
        whole == IF n1 < Len(first)
                   THEN [kind |-> "href_error", links |-> urls1]
                 ELSE IF ~BlogsInUrl(url)
                   THEN [kind |-> "ok", links |-> urls1]
                 ELSE IF n2 < Len(more)
                   THEN [kind |-> "href_error",
                         links |-> urls1 \cup extract(base, url, Take(more, n2))]
                 ELSE [kind |-> "ok", links |-> urls1 \cup extract(base, url, more)]
    IN  {whole}
        \cup {[kind |-> k, links |-> {}] : k \in {"timeout", "error"}}
        \cup {[kind |-> "extract_error", links |-> extract(base, url, Take(first, k))] :
                 k \in 0..(Min(n1 + 1, Len(first)) - 1)}
        \cup IF BlogsInUrl(url) /\ n1 = Len(first)
               THEN {[kind |-> "scroll_error",
                      links |-> urls1 \cup extract(base, url, Take(more, k))] :
                        k \in 0..(Min(n2 + 1, Len(more)) - 1)}
               ELSE {}

\* the results that need the driver or an element to fail
is_fault(kind) == kind \notin {"ok", "href_error"}

\* ------------------------------------------------------------------ state
VARIABLES
    base_url,        \* SitemapGenerator.base_url
    max_depth,       \* SitemapGenerator.max_depth
    status,          \* SitemapGenerator.status
    logs,            \* SitemapGenerator.logs
    error,           \* SitemapGenerator.error ("None" when unset)
    sitemap_data,    \* SitemapGenerator.sitemap_data (<<>> when None, <<tree>> when set)
    driver,          \* SitemapGenerator.driver: "none", "open", "closed"
    visited_urls,    \* SitemapGenerator.visited_urls
    all_found_urls,  \* SitemapGenerator.all_found_urls
    url_children,    \* SitemapGenerator.url_children (a function on its keys)
    pc,              \* where the worker thread is in generate_sitemap
    stack,           \* the active calls of crawl_recursive, innermost last
    hierarchy,       \* generate_sitemap's local hierarchical_sitemap
    fatal,           \* which exception reached generate_sitemap's handler
    renders,         \* how many times get_page_links ran for each URL
    visit_depth,     \* the depth argument every visited URL was crawled with
    page_result,     \* what get_page_links returned for each rendered URL
    failures,        \* failed renders and fetches so far
    discovery,       \* what discover_sitemap_urls returned, once it has run
    start_time,      \* SitemapGenerator.start_time (<<>> when None, <<t>> when set)
    end_time,        \* SitemapGenerator.end_time (<<>> when None, <<t>> when set)
    trace,           \* the visits and status assignments of the job, in their order
    polls,           \* /status requests started so far
    poll_pc,         \* where the /status handler is: "idle", "reading"
    reading,         \* the response dict the /status handler is building
    response,        \* the last response a /status request was answered with
    fn_args,         \* the arguments of a method called on its own (<<>>: no call)
    fn_result,       \* <<value>> once that call has returned
    job_id,          \* the job whose generator the variables above hold (0: none)
    crawl_jobs,      \* the keys of the global dict crawl_jobs, in insertion order
    parked,          \* the generators of the other jobs, by job id
    returned,        \* the answers /generate-sitemap has given, in their order
    listing,         \* the /jobs handler: its iteration over crawl_jobs
    scroll,          \* screenshot service: one call of _progressive_scroll
    scraper          \* text scraper service: one job of `jobs` and its poller

job_vars   == <<base_url, max_depth, status, logs, error, sitemap_data, driver>>
crawl_vars == <<visited_urls, all_found_urls, url_children>>
work_vars  == <<pc, stack, hierarchy, fatal>>
hist_vars  == <<renders, visit_depth, page_result, failures, discovery>>
time_vars  == <<start_time, end_time>>
poll_vars  == <<polls, poll_pc, reading, response>>
fn_vars    == <<fn_args, fn_result>>
svc_vars   == <<job_id, crawl_jobs, parked, returned, listing>>
other_vars == <<scroll, scraper>>
vars == <<base_url, max_depth, status, logs, error, sitemap_data, driver,
          visited_urls, all_found_urls, url_children, pc, stack, hierarchy,
          fatal, renders, visit_depth, page_result, failures, discovery,
          start_time, end_time, trace, polls, poll_pc, reading, response,
          fn_args, fn_result, job_id, crawl_jobs, parked, returned, listing,
          scroll, scraper>>

\* root_url of crawl_site and build_hierarchical_sitemap
root_url(base) == [scheme |-> base.scheme, host |-> base.host, path |-> <<>>,
                   slash |-> FALSE, query |-> "", frag |-> ""]

\* variant of log: the list holds the newest entry only
log_last_only(l, text, u, n) == <<[text |-> text, url |-> u, n |-> n]>>

\* log(): append one entry; an entry is its message text with its arguments
log(l, text, u, n) == Append(l, [text |-> text, url |-> u, n |-> n])
\* the entry update_status() logs: f"Status: {status}"
status_entry(s) == [text |-> "Status: " \o s, url |-> NoUrl, n |-> 0]

EmptyMap == [x \in {} |-> {}]
Put(f, k, v) == [x \in DOMAIN f \cup {k} |-> IF x = k THEN v ELSE f[x]]

\* no sitemap URL discovery has run yet
NoDiscovery == [done |-> FALSE, failed |-> FALSE, urls |-> {}]

\* A generator object: the fields __init__ sets (lines 25-37), with the
\* position of the thread that runs its generate_sitemap and what that
\* thread has done so far.
new_generator(url, md) ==
    [base_url |-> url, max_depth |-> md, status |-> "initializing",
     logs |-> <<>>, error |-> "None", sitemap_data |-> <<>>, driver |-> "none",
     visited_urls |-> {}, all_found_urls |-> {}, url_children |-> EmptyMap,
     start_time |-> <<>>, end_time |-> <<>>,
     pc |-> "start", stack |-> <<>>, hierarchy |-> <<>>, fatal |-> "none",
     renders |-> EmptyMap, visit_depth |-> EmptyMap, page_result |-> EmptyMap,
     failures |-> 0, discovery |-> NoDiscovery, trace |-> <<>>]

\* what the variables hold while no job exists
no_generator == [new_generator(NoUrl, 0) EXCEPT !.status = "none", !.pc = "none"]

\* the generator the variables hold
running ==
    [base_url |-> base_url, max_depth |-> max_depth, status |-> status,
     logs |-> logs, error |-> error, sitemap_data |-> sitemap_data,
     driver |-> driver, visited_urls |-> visited_urls,
     all_found_urls |-> all_found_urls, url_children |-> url_children,
     start_time |-> start_time, end_time |-> end_time,
     pc |-> pc, stack |-> stack, hierarchy |-> hierarchy, fatal |-> fatal,
     renders |-> renders, visit_depth |-> visit_depth,
     page_result |-> page_result, failures |-> failures,
     discovery |-> discovery, trace |-> trace]

\* the variables hold the generator g
holds(g) ==
    /\ base_url = g.base_url
    /\ max_depth = g.max_depth
    /\ status = g.status
    /\ logs = g.logs
    /\ error = g.error
    /\ sitemap_data = g.sitemap_data
    /\ driver = g.driver
    /\ visited_urls = g.visited_urls
    /\ all_found_urls = g.all_found_urls
    /\ url_children = g.url_children
    /\ start_time = g.start_time
    /\ end_time = g.end_time
    /\ pc = g.pc
    /\ stack = g.stack
    /\ hierarchy = g.hierarchy
    /\ fatal = g.fatal
    /\ renders = g.renders
    /\ visit_depth = g.visit_depth
    /\ page_result = g.page_result
    /\ failures = g.failures
    /\ discovery = g.discovery
    /\ trace = g.trace

\* crawl_jobs[id]
generator(id) == IF id = job_id THEN running ELSE parked[id]

\* the response of a /status request: the keys of lines 454-475 (a key the
\* handler leaves out holds <<>>) and the HTTP status code
NoResponse ==
    [code |-> 0, job_id |-> 0, status |-> "none", url |-> NoUrl, logs |-> <<>>,
     discovered_urls_count |-> 0, total_links_found |-> 0,
     url_relationships |-> 0, start_time |-> <<>>, end_time |-> <<>>,
     duration_seconds |-> <<>>, has_error |-> FALSE, error |-> "None",
     has_sitemap |-> FALSE, sitemap |-> <<>>]

\* line 450: {'error': 'Job not found'}, 404
JobNotFound(id) == [NoResponse EXCEPT !.code = 404, !.job_id = id,
                                      !.has_error = TRUE,
                                      !.error = "Job not found"]

\* the answers of /generate-sitemap: 202 with the job id (line 436), 400
\* (lines 407, 416, 418)
Accepted(id) == [code |-> 202, job_id |-> id]
Rejected == [code |-> 400, job_id |-> 0]

\* no /jobs request is being handled and none was answered
NoListing == [pc |-> "idle", size |-> 0, pos |-> 0, jobs |-> <<>>,
              code |-> 0, known |-> {}]

\* the /status and /jobs handlers are idle
HandlersIdle ==
    /\ polls = 0
    /\ poll_pc = "idle"
    /\ reading = NoResponse
    /\ response = NoResponse
    /\ listing = NoListing

\* One job was submitted: /generate-sitemap has registered its generator
\* (lines 421-423) and answered with its id; its thread has not run yet.
JobInit(bases, depths) ==
    /\ \E b \in bases, d \in depths : holds(new_generator(b, d))
    /\ job_id = 1
    /\ crawl_jobs = <<1>>
    /\ parked = EmptyMap
    /\ returned = <<Accepted(1)>>
    /\ HandlersIdle

\* _progressive_scroll has not been called
NoScroll == [pc |-> "idle", steps |-> 0, last_height |-> 0, stalled |-> FALSE,
             at_top |-> TRUE]

\* no text scraper job has been started
NoScraper == [pc |-> "none", status |-> "none", result |-> "null",
              poll_pc |-> "idle", polls |-> 0,
              read_status |-> "none", answer |-> <<>>]

\* the screenshot service and the text scraper service are idle
OthersIdle == scroll = NoScroll /\ scraper = NoScraper

\* no method is called on its own
NoCall == fn_args = <<>> /\ fn_result = <<>> /\ OthersIdle

\* max_depth is taken from the request as it is (line 409): -1..MaxDepth
Init == JobInit(BaseUrls, -1..MaxDepth) /\ NoCall

\* ------------------------------------------------------- HierarchyBuilder
\* f"{parsed.netloc}{parsed.path}"
path_key(u) == [host |-> u.host, path |-> u.path, slash |-> u.slash]

\* 'blogs' in child_path
BlogsInPath(u) == \E i \in 1..Len(u.path) : TokHasBlogs(u.path[i])

\* '/blogs/' in discovered_path
SlashBlogsSlashInPath(u) ==
    \E i \in 1..Len(u.path) : u.path[i] = "blogs" /\ (i < Len(u.path) \/ u.slash)

\* discovered_path.startswith(child_path + '/')
path_starts_with(d, child) ==
    IF child.slash THEN FALSE
    ELSE IF child.path = <<>> THEN d.path # <<>> \/ d.slash
    ELSE IsStrictPrefix(child.path, d.path) \/ (d.path = child.path /\ d.slash)

\* The characters (code points) of the tokens URL strings are made of, for
\* the string order sorted() uses.
chars ==
    "http" :> <<104, 116, 116, 112>>
    @@ "https" :> <<104, 116, 116, 112, 115>>
    @@ "mailto" :> <<109, 97, 105, 108, 116, 111>>
    @@ "x.com" :> <<120, 46, 99, 111, 109>>
    @@ "y.com" :> <<121, 46, 99, 111, 109>>
    @@ "example.test" :>
         <<101, 120, 97, 109, 112, 108, 101, 46, 116, 101, 115, 116>>
    @@ "t.test" :> <<116, 46, 116, 101, 115, 116>>
    @@ "a" :> <<97>>
    @@ "1" :> <<49>>
    @@ "x" :> <<120>>
    @@ "z" :> <<122>>
    @@ "me" :> <<109, 101>>
    @@ "blogs" :> <<98, 108, 111, 103, 115>>
    @@ "p1" :> <<112, 49>>
    @@ "p2" :> <<112, 50>>
    @@ "landing" :> <<108, 97, 110, 100, 105, 110, 103>>
    @@ "promo" :> <<112, 114, 111, 109, 111>>
    @@ "hidden" :> <<104, 105, 100, 100, 101, 110>>
    @@ "sitemap.xml" :>
         <<115, 105, 116, 101, 109, 97, 112, 46, 120, 109, 108>>
    @@ "logo.png" :> <<108, 111, 103, 111, 46, 112, 110, 103>>
    @@ "docs" :> <<100, 111, 99, 115>>
    @@ "guide" :> <<103, 117, 105, 100, 101>>
    @@ "setup" :> <<115, 101, 116, 117, 112>>
    @@ "myblogs" :> <<109, 121, 98, 108, 111, 103, 115>>
    @@ "zeta" :> <<122, 101, 116, 97>>
    @@ "v=2" :> <<118, 61, 50>>
    @@ "blogs.test" :> <<98, 108, 111, 103, 115, 46, 116, 101, 115, 116>>
    @@ "about" :> <<97, 98, 111, 117, 116>>
    @@ "team" :> <<116, 101, 97, 109>>
    @@ "n1" :> <<110, 49>>
    @@ "dl" :> <<100, 108>>
    @@ "bio" :> <<98, 105, 111>>
    @@ "f=a.zip" :> <<102, 61, 97, 46, 122, 105, 112>>

RECURSIVE path_chars(_)
path_chars(p) ==
    IF p = <<>> THEN <<>> ELSE <<47>> \o chars[Head(p)] \o path_chars(Tail(p))

\* parsed.path as a string
full_path(u) == path_chars(u.path) \o (IF u.slash THEN <<47>> ELSE <<>>)

\* the URL string: scheme://netloc/path?query
url_chars(u) ==
    chars[u.scheme] \o <<58, 47, 47>> \o chars[u.host] \o full_path(u)
        \o (IF u.query = "" THEN <<>> ELSE <<63>> \o chars[u.query])

\* the string f"{parsed.netloc}{parsed.path}"
key_chars(k) == chars[k.host] \o full_path(k)

\* s < t for Python strings
str_less(s, t) ==
    \E i \in 1..(Min(Len(s), Len(t)) + 1) :
        /\ \A j \in 1..(i - 1) : s[j] = t[j]
        /\ \/ i > Len(s) /\ i <= Len(t)
           \/ i <= Len(s) /\ i <= Len(t) /\ s[i] < t[i]

\* every URL string the sites above can put into a set of the crawl
AllUrls == {RootUrl, HomeUrl, PageA, PageA1, PageA1x, Blogs, PostP1, PostP2,
            Landing, Logo, External, SitemapXml, Hidden,
            ExRoot, ExA, ExA1, ExBlogs, ExP1, ExP2,
            TRoot, TDocs, TDocsQ, TGuide, TSetup, TMyBlogs, TMyBlogsX, TZeta,
            BRoot, BAbout, BTeam, BNews, BLogoV, BDl, BBio}
AllKeys == {path_key(u) : u \in AllUrls}

\* the place of each URL string, and of each key string, in string order
url_rank ==
    [u \in AllUrls |->
        Cardinality({v \in AllUrls : str_less(url_chars(v), url_chars(u))})]
key_rank ==
    [k \in AllKeys |->
        Cardinality({j \in AllKeys : str_less(key_chars(j), key_chars(k))})]

\* all of them in string order
all_urls_sorted ==
    [i \in 1..Cardinality(AllUrls) |->
        CHOOSE u \in AllUrls : url_rank[u] = i - 1] \o <<>>
all_keys_sorted ==
    [i \in 1..Cardinality(AllKeys) |->
        CHOOSE k \in AllKeys : key_rank[k] = i - 1] \o <<>>

\* sorted(list(S)) for a set of URL strings
sorted_urls(S) ==
    LET member(u) == u \in S
    IN  SelectSeq(all_urls_sorted, member)

\* sorted(list(K)) for a set of key strings
sorted_keys(K) ==
    LET member(k) == k \in K
    IN  SelectSeq(all_keys_sorted, member)

Reverse(seq) == [i \in 1..Len(seq) |-> seq[Len(seq) + 1 - i]]

\* The orders in which `for x in a_set` may iterate S: Python leaves the
\* order of a set open; two opposite orders stand for all of them.
orders(S) == {sorted_urls(S), Reverse(sorted_urls(S))}

\* the strings of a list in their order, each once (first occurrence)
unique(seq) ==
    LET firsts == {i \in 1..Len(seq) : \A j \in 1..(i - 1) : seq[j] # seq[i]}
    IN  [n \in 1..Cardinality(firsts) |->
            seq[CHOOSE i \in firsts : Cardinality({j \in firsts : j < i}) = n - 1]]

\* lines 328-349: the list `descendants` after the loop over the candidates,
\* iterated in the order `found` (all_found_urls) or `vis` (visited_urls)
appended(child, found, vis) ==
    LET blog_hit(x) == /\ path_starts_with(x, child) /\ x # child
                       /\ SlashBlogsSlashInPath(x)
        hit(x)      == path_starts_with(x, child) /\ x # child
        cand        == IF BlogsInPath(child) THEN SelectSeq(found, blog_hit)
                                             ELSE SelectSeq(vis, hit)
    IN  [i \in 1..Len(cand) |-> path_key(cand[i])]

\* variant of descendants: duplicates removed, order of iteration kept
descendants_unsorted(child, found, vis) == unique(appended(child, found, vis))

\* line 351: sorted(list(set(descendants)))
descendants(child, found, vis) == sorted_keys(Range(appended(child, found, vis)))

\* variant of has_children: a recorded key counts, also with no children
has_children_keyed(kids, u) == u \in DOMAIN kids

\* line 323: child_url in self.url_children and self.url_children[child_url]
has_children(kids, u) == u \in DOMAIN kids /\ kids[u] # {}

\* A dict is held as the sequence of its items in insertion order, an item
\* being [key, kind, value, list]: kind "object" with the nested dict in
\* value, or kind "list" with the list.

\* After the loop `for child_url in children: tree[child_key] = ...` a key
\* stands where its first assignment put it and holds the value of its last
\* assignment: the children that assigned a key first, in the loop's order
first_with_key(S) ==
    LET first(c) == \A d \in S :
                        path_key(d) = path_key(c) => url_rank[c] <= url_rank[d]
    IN  SelectSeq(sorted_urls(S), first)

\* the child that assigned the key of c last
last_with_key(S, c) ==
    CHOOSE d \in S :
        /\ path_key(d) = path_key(c)
        /\ \A e \in S : path_key(e) = path_key(c) => url_rank[e] <= url_rank[d]

RECURSIVE build_tree_for_url(_, _, _, _)

\* lines 322-351: the value one child assigns to its key
tree_item(c, kids, found, vis) ==
    IF has_children(kids, c)
      THEN [key |-> path_key(c), kind |-> "object",
            value |-> build_tree_for_url(c, kids, found, vis),
            list |-> <<>>]
      ELSE [key |-> path_key(c), kind |-> "list",
            value |-> <<>>,
            list |-> descendants(c, found, vis)]

\* lines 311-353: the dict built by the loop over the sorted children
build_tree_for_url(url, kids, found, vis) ==
    IF url \notin DOMAIN kids THEN <<>>
    ELSE LET item_of == [c \in kids[url] |-> tree_item(c, kids, found, vis)]
             holders == first_with_key(kids[url])
         IN  [n \in 1..Len(holders) |->
                 item_of[last_with_key(kids[url], holders[n])]]

\* hierarchy = {base_domain: build_tree_for_url(root_url)}
build_hierarchical_sitemap(base, kids, found, vis) ==
    [domain |-> base.host,
     tree |-> build_tree_for_url(root_url(base), kids, found, vis)]

\* ------------------------------------------------ crawl_recursive (worker)
\* the depth below which a blogs page is crawled through all its links
BlogDepthLimit == 3

Frame(u, d) == [url |-> u, depth |-> d, links |-> {}, children |-> {},
                pc |-> "enter", todo |-> {}]

Top == stack[Len(stack)]
Pop == SubSeq(stack, 1, Len(stack) - 1)
SetTop(f) == [stack EXCEPT ![Len(stack)] = f]

Crawling == pc \in {"in_root", "in_base"} /\ stack # <<>>

\* variants of skip_crawl: without the visited test, and one level too deep
skip_crawl_depth_only(url, depth, vis, md) == depth > md
skip_crawl_one_deeper(url, depth, vis, md) == depth > md + 1 \/ url \in vis

\* variant of skip_crawl: the deepest level is not crawled
skip_crawl_shallow(url, depth, vis, md) == depth >= md \/ url \in vis

\* line 199: if depth > self.max_depth or url in self.visited_urls: return
skip_crawl(url, depth, vis, md) == depth > md \/ url \in vis

\* variant of add_visited: the set is replaced by the URL
add_visited_replacing(vis, url) == {url}

\* variant of add_visited: the URL is not marked as visited
add_visited_skipping(vis, url) == vis

\* line 203: self.visited_urls.add(url)
add_visited(vis, url) == vis \cup {url}

\* variant of update_found: the links are not recorded
update_found_dropping(found, links) == found

\* line 207: self.all_found_urls.update(links)
update_found(found, links) == found \cup links

\* variant of children_of: every link of the page is taken as a child
children_of_all_links(url, links) == links

\* lines 210-213: the links that are children of url
children_of(url, links) == {l \in links : is_child_of(url, l)}

\* line 218: 'blogs' in url and depth < 3
deepen_blogs(url, depth) == BlogsInUrl(url) /\ depth < BlogDepthLimit

\* lines 220-222: the links the blog loop recurses into
blog_target(base, link, vis) ==
    is_same_domain(base, link) /\ SlashBlogsSlashIn(link) /\ link \notin vis

\* variant of record_children: a page without children gets no entry
record_children_nonempty(kids, url, children) ==
    IF children = {} THEN kids ELSE Put(kids, url, children)

\* line 215: self.url_children[url] = children
record_children(kids, url, children) == Put(kids, url, children)

\* variant of rest_of_loop: the loop does not advance
rest_of_loop_stuck(todo, x) == todo

\* what is left of a for loop's set once `x` has been iterated
rest_of_loop(todo, x) == todo \ {x}

\* the events of `trace`: a URL was added to visited_urls (line 203), the
\* status field was assigned (line 48)
visit_event(u) == [kind |-> "visit", url |-> u, status |-> ""]
status_event(st) == [kind |-> "status", url |-> NoUrl, status |-> st]

\* lines 199-203: the entry of one call; the entry of line 202 is logged
\* just before the URL is added
CrawlEnter ==
    /\ Crawling /\ Top.pc = "enter"
    /\ IF skip_crawl(Top.url, Top.depth, visited_urls, max_depth)
         THEN /\ stack' = Pop
              /\ UNCHANGED <<logs, visited_urls, visit_depth, trace>>
         ELSE /\ logs' = log(logs, "Crawling", Top.url, Top.depth)
              /\ visited_urls' = add_visited(visited_urls, Top.url)
              /\ visit_depth' = Put(visit_depth, Top.url, Top.depth)
              /\ trace' = Append(trace, visit_event(Top.url))
              /\ stack' = SetTop([Top EXCEPT !.pc = "fetch"])
    /\ UNCHANGED <<base_url, max_depth, status, error, sitemap_data, driver,
                   all_found_urls, url_children, pc, hierarchy, fatal,
                   renders, page_result, failures, discovery, poll_vars, fn_vars, other_vars,
                   time_vars, svc_vars>>

\* lines 206-215: render the page, record its links and its children
CrawlFetch ==
    /\ Crawling /\ Top.pc = "fetch"
    /\ \E o \in get_page_links(base_url, Top.url) :
         /\ ~is_fault(o.kind) \/ failures < MaxFailures
         /\ failures' = IF is_fault(o.kind) THEN failures + 1 ELSE failures
         /\ renders' = Put(renders, Top.url,
                           IF Top.url \in DOMAIN renders
                             THEN renders[Top.url] + 1 ELSE 1)
         /\ page_result' = Put(page_result, Top.url, o)
         /\ IF o.kind \in {"timeout", "error"} /\ ~caught_in_get_page_links(o.kind)
              THEN \* the exception leaves every active call of crawl_recursive
                   /\ stack' = <<>>
                   /\ pc' = "except"
                   /\ fatal' = "page"
                   /\ logs' = log(logs, "Loading page", Top.url, 0)
                   /\ UNCHANGED <<all_found_urls, url_children>>
              ELSE /\ logs' = log(log(logs, "Loading page", Top.url, 0),
                                  o.kind, Top.url, Cardinality(o.links))
                   /\ all_found_urls' = update_found(all_found_urls, o.links)
                   /\ url_children' = record_children(url_children, Top.url,
                                          children_of(Top.url, o.links))
                   /\ stack' = SetTop(
                        [Top EXCEPT !.links = o.links,
                                    !.children = children_of(Top.url, o.links),
                                    !.pc = IF deepen_blogs(Top.url, Top.depth)
                                             THEN "blog_loop" ELSE "child_loop",
                                    !.todo = IF deepen_blogs(Top.url, Top.depth)
                                               THEN o.links
                                               ELSE children_of(Top.url, o.links)])
                   /\ UNCHANGED <<pc, fatal>>
    /\ UNCHANGED <<base_url, max_depth, status, error, sitemap_data, driver,
                   visited_urls, hierarchy, visit_depth, discovery, poll_vars, fn_vars, other_vars,
                   time_vars, trace, svc_vars>>

\* lines 219-223: one iteration of `for link in links` on a blogs page
CrawlBlogLoop ==
    /\ Crawling /\ Top.pc = "blog_loop"
    /\ IF Top.todo = {}
         THEN stack' = SetTop([Top EXCEPT !.pc = "child_loop", !.todo = Top.children])
         ELSE \E link \in Top.todo :
                LET here == [Top EXCEPT !.todo = rest_of_loop(Top.todo, link)]
                IN  stack' = IF blog_target(base_url, link, visited_urls)
                               THEN Append(SetTop(here), Frame(link, Top.depth + 1))
                               ELSE SetTop(here)
    /\ UNCHANGED <<job_vars, crawl_vars, pc, hierarchy, fatal, hist_vars, poll_vars, fn_vars, other_vars,
                   time_vars, trace, svc_vars>>

\* lines 226-228: one iteration of `for child_url in children`
CrawlChildLoop ==
    /\ Crawling /\ Top.pc = "child_loop"
    /\ IF Top.todo = {}
         THEN stack' = Pop
         ELSE \E child \in Top.todo :
                LET here == [Top EXCEPT !.todo = rest_of_loop(Top.todo, child)]
                IN  stack' = IF child \notin visited_urls
                               THEN Append(SetTop(here), Frame(child, Top.depth + 1))
                               ELSE SetTop(here)
    /\ UNCHANGED <<job_vars, crawl_vars, pc, hierarchy, fatal, hist_vars, poll_vars, fn_vars, other_vars,
                   time_vars, trace, svc_vars>>

\* ------------------------------------------------------- SitemapDiscovery
\* Every result discover_sitemap_urls() can have: each of the two fetches
\* either runs through or raises at some entry and keeps what it had added.
discover_sitemap_urls(base) ==
    LET same(seq) == {u \in Range(seq) : is_same_domain(base, u)}
    IN  {[failed |-> (i < Len(SitemapLocs)) \/ (j < Len(RobotsSitemaps)),
          urls |-> same(Take(SitemapLocs, i)) \cup same(Take(RobotsSitemaps, j))] :
            i \in 0..Len(SitemapLocs), j \in 0..Len(RobotsSitemaps)}

\* ------------------------------------------- generate_sitemap (the worker)
\* datetime.now(): times are counted in ticks of the clock from the first
\* reading a job takes; a later reading is not smaller than an earlier one
\* and may be equal to it
FirstReading == 0
datetime_now(earlier) == {earlier, earlier + 1}

\* update_status (lines 46-49) assigns the status, then logs it: where the
\* thread goes on once the entry is logged
after_log ==
    [crawl_site_log |-> "setup_driver", build_log |-> "build_tree",
     completed_log |-> "store", error_log |-> "finally"]

\* variant of LogStatus: the status is assigned without a log entry
LogStatusSilent ==
    /\ pc \in DOMAIN after_log
    /\ pc' = after_log[pc]
    /\ UNCHANGED <<base_url, max_depth, status, error, sitemap_data, driver,
                   crawl_vars, stack, hierarchy, fatal, hist_vars, poll_vars, fn_vars, other_vars,
                   time_vars, trace, svc_vars, logs>>

\* line 49: self.log(f"Status: {status}")
LogStatus ==
    /\ pc \in DOMAIN after_log
    /\ logs' = Append(logs, status_entry(status))
    /\ pc' = after_log[pc]
    /\ UNCHANGED <<base_url, max_depth, status, error, sitemap_data, driver,
                   crawl_vars, stack, hierarchy, fatal, hist_vars, poll_vars, fn_vars, other_vars,
                   time_vars, trace, svc_vars>>

\* lines 372-373: generate_sitemap starts
StartJob ==
    /\ pc = "start"
    /\ start_time' = <<FirstReading>>
    /\ logs' = log(logs, "Starting sitemap generation", base_url, 0)
    /\ pc' = "crawl_site"
    /\ UNCHANGED <<base_url, max_depth, status, error, sitemap_data, driver,
                   crawl_vars, stack, hierarchy, fatal, hist_vars, poll_vars, fn_vars, other_vars,
                   end_time, trace, svc_vars>>

\* lines 281, 48: crawl_site: update_status("starting_crawl") assigns the status
CrawlSiteBegin ==
    /\ pc = "crawl_site"
    /\ status' = "starting_crawl"
    /\ trace' = Append(trace, status_event("starting_crawl"))
    /\ pc' = "crawl_site_log"
    /\ UNCHANGED <<base_url, max_depth, logs, error, sitemap_data, driver,
                   crawl_vars, stack, hierarchy, fatal, hist_vars, poll_vars, fn_vars, other_vars,
                   time_vars, svc_vars>>

\* lines 283-284, 51-70: setup_driver succeeds
SetupDriverOk ==
    /\ pc = "setup_driver" /\ driver = "none"
    /\ driver' = "open"
    /\ logs' = log(log(logs, "Setting up Chrome driver", NoUrl, 0),
                   "Chrome driver setup successful", NoUrl, 0)
    /\ pc' = "discover"
    /\ UNCHANGED <<base_url, max_depth, status, error, sitemap_data,
                   crawl_vars, stack, hierarchy, fatal, hist_vars, poll_vars, fn_vars, other_vars,
                   time_vars, trace, svc_vars>>

\* variant of SetupDriverFails: the exception is logged but not re-raised
SetupDriverFailsSwallowed ==
    /\ pc = "setup_driver" /\ driver = "none"
    /\ error' = "Error setting up Chrome driver"
    /\ logs' = log(log(logs, "Setting up Chrome driver", NoUrl, 0),
                   "Error setting up Chrome driver", NoUrl, 0)
    /\ fatal' = "driver"
    /\ pc' = "discover"
    /\ UNCHANGED <<base_url, max_depth, status, sitemap_data, driver,
                   crawl_vars, stack, hierarchy, hist_vars, poll_vars, fn_vars, other_vars,
                   time_vars, trace, svc_vars>>

\* lines 66-70: webdriver.Chrome raises; setup_driver sets error and re-raises
SetupDriverFails ==
    /\ pc = "setup_driver" /\ driver = "none"
    /\ error' = "Error setting up Chrome driver"
    /\ logs' = log(log(logs, "Setting up Chrome driver", NoUrl, 0),
                   "Error setting up Chrome driver", NoUrl, 0)
    /\ fatal' = "driver"
    /\ pc' = "except"
    /\ UNCHANGED <<base_url, max_depth, status, sitemap_data, driver,
                   crawl_vars, stack, hierarchy, hist_vars, poll_vars, fn_vars, other_vars,
                   time_vars, trace, svc_vars>>

\* variant of Discover: the discovered URLs are marked as visited
DiscoverSeeding ==
    /\ pc = "discover"
    /\ \E d \in discover_sitemap_urls(base_url) :
         /\ ~d.failed \/ failures < MaxFailures
         /\ failures' = IF d.failed THEN failures + 1 ELSE failures
         /\ discovery' = [done |-> TRUE, failed |-> d.failed, urls |-> d.urls]
         /\ all_found_urls' = update_found(all_found_urls, d.urls)
         /\ visited_urls' = visited_urls \cup d.urls
         /\ logs' = log(log(logs, "Starting recursive crawl from", root_url(base_url), 0),
                        "Discovery", NoUrl, Cardinality(d.urls))
    /\ stack' = <<Frame(root_url(base_url), 0)>>
    /\ pc' = "in_root"
    /\ UNCHANGED <<base_url, max_depth, status, error, sitemap_data, driver,
                   url_children, hierarchy, fatal,
                   renders, visit_depth, page_result, poll_vars, fn_vars, other_vars,
                   time_vars, trace, svc_vars>>

\* variant of Discover: a failed fetch is not swallowed but raised
DiscoverRaising ==
    /\ pc = "discover"
    /\ \E d \in discover_sitemap_urls(base_url) :
         /\ ~d.failed \/ failures < MaxFailures
         /\ failures' = IF d.failed THEN failures + 1 ELSE failures
         /\ discovery' = [done |-> TRUE, failed |-> d.failed, urls |-> d.urls]
         /\ all_found_urls' = update_found(all_found_urls, d.urls)
         /\ logs' = log(log(logs, "Starting recursive crawl from", root_url(base_url), 0),
                        "Discovery", NoUrl, Cardinality(d.urls))
         /\ IF d.failed
              THEN stack' = <<>> /\ pc' = "except" /\ fatal' = "discovery"
              ELSE /\ stack' = <<Frame(root_url(base_url), 0)>>
                   /\ pc' = "in_root" /\ fatal' = fatal
    /\ UNCHANGED <<base_url, max_depth, status, error, sitemap_data, driver,
                   visited_urls, url_children, hierarchy,
                   renders, visit_depth, page_result, poll_vars, fn_vars, other_vars,
                   time_vars, trace, svc_vars>>

\* lines 287-297: discover the sitemap URLs, then call crawl_recursive(root_url, 0)
Discover ==
    /\ pc = "discover"
    /\ \E d \in discover_sitemap_urls(base_url) :
         /\ ~d.failed \/ failures < MaxFailures
         /\ failures' = IF d.failed THEN failures + 1 ELSE failures
         /\ discovery' = [done |-> TRUE, failed |-> d.failed, urls |-> d.urls]
         /\ all_found_urls' = update_found(all_found_urls, d.urls)
         /\ logs' = log(log(logs, "Starting recursive crawl from", root_url(base_url), 0),
                        "Discovery", NoUrl, Cardinality(d.urls))
    /\ stack' = <<Frame(root_url(base_url), 0)>>
    /\ pc' = "in_root"
    /\ UNCHANGED <<base_url, max_depth, status, error, sitemap_data, driver,
                   visited_urls, url_children, hierarchy, fatal,
                   renders, visit_depth, page_result, poll_vars, fn_vars, other_vars,
                   time_vars, trace, svc_vars>>

\* variant of CrawlRootReturn: the base URL is not crawled on its own
CrawlRootReturnOnly ==
    /\ pc = "in_root" /\ stack = <<>>
    /\ logs' = log(logs, "Crawl complete", NoUrl, Cardinality(visited_urls))
    /\ pc' = "build"
    /\ UNCHANGED <<base_url, max_depth, status, error, sitemap_data, driver,
                   crawl_vars, stack, hierarchy, fatal, hist_vars, poll_vars, fn_vars, other_vars,
                   time_vars, trace, svc_vars>>

\* lines 297-303: crawl_recursive(root_url, 0) returned
CrawlRootReturn ==
    /\ pc = "in_root" /\ stack = <<>>
    /\ IF base_url # root_url(base_url)
         THEN /\ stack' = <<Frame(base_url, 0)>>
              /\ pc' = "in_base"
              /\ UNCHANGED logs
         ELSE /\ logs' = log(logs, "Crawl complete", NoUrl, Cardinality(visited_urls))
              /\ pc' = "build"
              /\ UNCHANGED stack
    /\ UNCHANGED <<base_url, max_depth, status, error, sitemap_data, driver,
                   crawl_vars, hierarchy, fatal, hist_vars, poll_vars, fn_vars, other_vars,
                   time_vars, trace, svc_vars>>

\* lines 301-303: crawl_recursive(self.base_url, 0) returned
CrawlBaseReturn ==
    /\ pc = "in_base" /\ stack = <<>>
    /\ logs' = log(logs, "Crawl complete", NoUrl, Cardinality(visited_urls))
    /\ pc' = "build"
    /\ UNCHANGED <<base_url, max_depth, status, error, sitemap_data, driver,
                   crawl_vars, stack, hierarchy, fatal, hist_vars, poll_vars, fn_vars, other_vars,
                   time_vars, trace, svc_vars>>

\* variant of BuildBegin: the status update is left out
BuildBeginSilent ==
    /\ pc = "build"
    /\ pc' = "build_tree"
    /\ UNCHANGED <<job_vars, crawl_vars, stack, hierarchy, fatal, hist_vars, poll_vars, fn_vars, other_vars,
                   time_vars, trace, svc_vars>>

\* lines 307, 48: build_hierarchical_sitemap: update_status("building_hierarchy")
\* assigns the status
BuildBegin ==
    /\ pc = "build"
    /\ status' = "building_hierarchy"
    /\ trace' = Append(trace, status_event("building_hierarchy"))
    /\ pc' = "build_log"
    /\ UNCHANGED <<base_url, max_depth, logs, error, sitemap_data, driver,
                   crawl_vars, stack, hierarchy, fatal, hist_vars, poll_vars, fn_vars, other_vars,
                   time_vars, svc_vars>>

\* variant of BuildTree: the blog leaf lists are taken from every URL of the
\* sites instead of all_found_urls
BuildTreeAllUrls ==
    /\ pc = "build_tree"
    /\ \E found \in orders(AllUrls), vis \in orders(visited_urls) :
         hierarchy' = <<build_hierarchical_sitemap(base_url, url_children,
                                                   found, vis)>>
    /\ logs' = log(log(logs, "Building hierarchical tree structure", NoUrl, 0),
                   "Hierarchy building complete", NoUrl, 0)
    /\ pc' = "set_completed"
    /\ UNCHANGED <<base_url, max_depth, status, error, sitemap_data, driver,
                   crawl_vars, stack, fatal, hist_vars, poll_vars, fn_vars, other_vars,
                   time_vars, trace, svc_vars>>

\* lines 309-367: the tree is built and returned to generate_sitemap
BuildTree ==
    /\ pc = "build_tree"
    /\ \E found \in orders(all_found_urls), vis \in orders(visited_urls) :
         hierarchy' = <<build_hierarchical_sitemap(base_url, url_children,
                                                   found, vis)>>
    /\ logs' = log(log(logs, "Building hierarchical tree structure", NoUrl, 0),
                   "Hierarchy building complete", NoUrl, 0)
    /\ pc' = "set_completed"
    /\ UNCHANGED <<base_url, max_depth, status, error, sitemap_data, driver,
                   crawl_vars, stack, fatal, hist_vars, poll_vars, fn_vars, other_vars,
                   time_vars, trace, svc_vars>>

\* variant of BuildTreeFails: the part of the tree built so far is stored
BuildTreeFailsStoring ==
    /\ pc = "build_tree"
    /\ logs' = log(logs, "Building hierarchical tree structure", NoUrl, 0)
    /\ sitemap_data' = <<[domain |-> base_url.host, tree |-> <<>>]>>
    /\ fatal' = "hierarchy"
    /\ pc' = "except"
    /\ UNCHANGED <<base_url, max_depth, status, error, driver,
                   crawl_vars, stack, hierarchy, hist_vars, poll_vars, fn_vars, other_vars,
                   time_vars, trace, svc_vars>>

\* lines 309-367, 387: an unexpected exception while the tree is built
BuildTreeFails ==
    /\ pc = "build_tree"
    /\ logs' = log(logs, "Building hierarchical tree structure", NoUrl, 0)
    /\ fatal' = "hierarchy"
    /\ pc' = "except"
    /\ UNCHANGED <<base_url, max_depth, status, error, sitemap_data, driver,
                   crawl_vars, stack, hierarchy, hist_vars, poll_vars, fn_vars, other_vars,
                   time_vars, trace, svc_vars>>

\* lines 378, 48: update_status("completed") assigns the status
SetCompleted ==
    /\ pc = "set_completed"
    /\ status' = "completed"
    /\ trace' = Append(trace, status_event("completed"))
    /\ pc' = "completed_log"
    /\ UNCHANGED <<base_url, max_depth, logs, error, sitemap_data, driver,
                   crawl_vars, stack, hierarchy, fatal, hist_vars, poll_vars, fn_vars, other_vars,
                   time_vars, svc_vars>>

\* variant of StoreSitemap: end_time is not set
StoreSitemapNoEnd ==
    /\ pc = "store"
    /\ sitemap_data' = hierarchy
    /\ logs' = log(logs, "Sitemap generation completed", NoUrl, 0)
    /\ pc' = "finally"
    /\ UNCHANGED <<base_url, max_depth, status, error, driver,
                   crawl_vars, stack, hierarchy, fatal, hist_vars, poll_vars, fn_vars, other_vars,
                   time_vars, trace, svc_vars>>

\* lines 379-385: self.sitemap_data = hierarchical_sitemap, end_time, return
StoreSitemap ==
    /\ pc = "store"
    /\ sitemap_data' = hierarchy
    /\ \E t \in datetime_now(start_time[1]) : end_time' = <<t>>
    /\ logs' = log(logs, "Sitemap generation completed", NoUrl, 0)
    /\ pc' = "finally"
    /\ UNCHANGED <<base_url, max_depth, status, error, driver,
                   crawl_vars, stack, hierarchy, fatal, hist_vars, poll_vars, fn_vars, other_vars,
                   start_time, trace, svc_vars>>

\* lines 387-390: the handler logs and sets self.error
Except ==
    /\ pc = "except"
    /\ logs' = log(logs, "Error during sitemap generation", NoUrl, 0)
    /\ error' = "Error during sitemap generation"
    /\ pc' = "except_status"
    /\ UNCHANGED <<base_url, max_depth, status, sitemap_data, driver,
                   crawl_vars, stack, hierarchy, fatal, hist_vars, poll_vars, fn_vars, other_vars,
                   time_vars, trace, svc_vars>>

\* variant of ExceptStatus: the handler leaves the status as it is
ExceptStatusKept ==
    /\ pc = "except_status"
    /\ pc' = "finally"
    /\ UNCHANGED <<job_vars, crawl_vars, stack, hierarchy, fatal, hist_vars, poll_vars, fn_vars, other_vars,
                   time_vars, trace, svc_vars>>

\* lines 391, 48: update_status("error") assigns the status; the raise of
\* line 392 follows its log entry
ExceptStatus ==
    /\ pc = "except_status"
    /\ status' = "error"
    /\ trace' = Append(trace, status_event("error"))
    /\ pc' = "error_log"
    /\ UNCHANGED <<base_url, max_depth, logs, error, sitemap_data, driver,
                   crawl_vars, stack, hierarchy, fatal, hist_vars, poll_vars, fn_vars, other_vars,
                   time_vars, svc_vars>>

\* variant of Finally: the driver is quit on the completed path only
FinallyAfterSuccess ==
    /\ pc = "finally"
    /\ driver' = IF driver = "open" /\ fatal = "none" THEN "closed" ELSE driver
    /\ logs' = LET l == IF driver = "open" /\ fatal = "none"
                          THEN log(logs, "Chrome driver closed", NoUrl, 0)
                          ELSE logs
               IN  IF fatal # "none" THEN log(l, "Crawl failed", NoUrl, 0) ELSE l
    /\ pc' = "done"
    /\ UNCHANGED <<base_url, max_depth, status, error, sitemap_data,
                   crawl_vars, stack, hierarchy, fatal, hist_vars, poll_vars, fn_vars, other_vars,
                   time_vars, trace, svc_vars>>

\* lines 393-396 and 429-430: quit the driver; crawl_worker logs a raised error
Finally ==
    /\ pc = "finally"
    /\ driver' = IF driver = "open" THEN "closed" ELSE driver
    /\ logs' = LET l == IF driver = "open"
                          THEN log(logs, "Chrome driver closed", NoUrl, 0)
                          ELSE logs
               IN  IF fatal # "none" THEN log(l, "Crawl failed", NoUrl, 0) ELSE l
    /\ pc' = "done"
    /\ UNCHANGED <<base_url, max_depth, status, error, sitemap_data,
                   crawl_vars, stack, hierarchy, fatal, hist_vars, poll_vars, fn_vars, other_vars,
                   time_vars, trace, svc_vars>>

\* ------------------------------------------------------- /status/<job_id>
\* lines 449-462: the lookup in crawl_jobs, then the handler reads status,
\* base_url and the three counts of the generator
get_status_begin(id) ==
    /\ poll_pc = "idle" /\ polls < MaxPolls
    /\ polls' = polls + 1
    /\ IF id \notin Range(crawl_jobs)
         THEN /\ response' = JobNotFound(id)
              /\ UNCHANGED <<poll_pc, reading>>
         ELSE /\ reading' =
                   [NoResponse EXCEPT
                      !.job_id = id,
                      !.status = generator(id).status,
                      !.url = generator(id).base_url,
                      !.discovered_urls_count =
                          Cardinality(generator(id).visited_urls),
                      !.total_links_found =
                          Cardinality(generator(id).all_found_urls),
                      !.url_relationships =
                          Cardinality(DOMAIN generator(id).url_children)]
              /\ poll_pc' = "reading"
              /\ UNCHANGED response
    /\ UNCHANGED <<job_vars, crawl_vars, work_vars, hist_vars, fn_vars, other_vars,
                   time_vars, trace, svc_vars>>

\* a /status request for the job
PollBegin == get_status_begin(job_id)

\* lines 464-477: then start_time, end_time, error and sitemap_data, each
\* added when it is truthy; jsonify writes out the list `logs` the dict
\* refers to (line 458) as it is at that moment
PollEnd ==
    /\ poll_pc = "reading"
    /\ LET g == generator(reading.job_id)
       IN  response' =
             [reading EXCEPT
                !.code = 200,
                !.start_time = g.start_time,
                !.end_time = g.end_time,
                !.duration_seconds =
                    IF g.end_time # <<>>
                      THEN <<g.end_time[1] - g.start_time[1]>> ELSE <<>>,
                !.has_error = (g.error # "None"),
                !.error = g.error,
                !.has_sitemap = (g.sitemap_data # <<>>),
                !.sitemap = g.sitemap_data,
                !.logs = g.logs]
    /\ reading' = NoResponse
    /\ poll_pc' = "idle"
    /\ UNCHANGED <<job_vars, crawl_vars, work_vars, hist_vars, polls, fn_vars, other_vars,
                   time_vars, trace, svc_vars>>

\* ------------------------------------------------------ /generate-sitemap
\* lines 413-418: the URL of the request parses and has a netloc
valid_url(url) == ~parse_fails(url) /\ url.host # ""

\* the ids of the jobs that were given one
job_ids == {returned[i].job_id : i \in {n \in 1..Len(returned) : returned[n].code = 202}}

\* lines 401-443: a request with a url and a max_depth. A request that is
\* not valid is answered with 400; otherwise the generator is registered
\* under a fresh uuid4 and its thread is started.
Submit(urls, depths) ==
    /\ Len(returned) < MaxJobs
    /\ \E url \in urls, md \in depths :
         IF ~valid_url(url)
           THEN /\ returned' = Append(returned, Rejected)
                /\ UNCHANGED <<crawl_jobs, parked>>
           ELSE LET id == Len(crawl_jobs) + 1
                IN  /\ crawl_jobs' = Append(crawl_jobs, id)
                    /\ parked' = Put(parked, id, new_generator(url, md))
                    /\ returned' = Append(returned, Accepted(id))
    /\ UNCHANGED <<job_vars, crawl_vars, work_vars, hist_vars, poll_vars, fn_vars, other_vars,
                   time_vars, trace, job_id, listing>>

\* the variables take the fields of the generator g
load(g) ==
    /\ base_url' = g.base_url
    /\ max_depth' = g.max_depth
    /\ status' = g.status
    /\ logs' = g.logs
    /\ error' = g.error
    /\ sitemap_data' = g.sitemap_data
    /\ driver' = g.driver
    /\ visited_urls' = g.visited_urls
    /\ all_found_urls' = g.all_found_urls
    /\ url_children' = g.url_children
    /\ start_time' = g.start_time
    /\ end_time' = g.end_time
    /\ pc' = g.pc
    /\ stack' = g.stack
    /\ hierarchy' = g.hierarchy
    /\ fatal' = g.fatal
    /\ renders' = g.renders
    /\ visit_depth' = g.visit_depth
    /\ page_result' = g.page_result
    /\ failures' = g.failures
    /\ discovery' = g.discovery
    /\ trace' = g.trace

\* variant of Switch: the generators hold visited_urls as one shared set
SwitchSharingVisited ==
    /\ parked # EmptyMap
    /\ \E id \in DOMAIN parked :
         /\ load([parked[id] EXCEPT !.visited_urls =
                     IF job_id = 0 THEN @ ELSE visited_urls])
         /\ job_id' = id
         /\ parked' = [k \in (DOMAIN parked \ {id})
                               \cup (IF job_id = 0 THEN {} ELSE {job_id}) |->
                         IF k = job_id THEN running ELSE parked[k]]
    /\ UNCHANGED <<poll_vars, fn_vars, other_vars, crawl_jobs, returned, listing>>

\* lines 432-434: every job has a thread of its own; the interpreter runs
\* one thread at a time and switches to the thread of another job
Switch ==
    /\ parked # EmptyMap
    /\ \E id \in DOMAIN parked :
         /\ load(parked[id])
         /\ job_id' = id
         /\ parked' = [k \in (DOMAIN parked \ {id})
                               \cup (IF job_id = 0 THEN {} ELSE {job_id}) |->
                         IF k = job_id THEN running ELSE parked[k]]
    /\ UNCHANGED <<poll_vars, fn_vars, other_vars, crawl_jobs, returned, listing>>

\* ------------------------------------------------------------------ /jobs
\* the entry list_jobs appends for one job (lines 485-490)
job_entry(id) ==
    [job_id |-> id, url |-> generator(id).base_url,
     status |-> generator(id).status, start_time |-> generator(id).start_time]

\* lines 483-484: the handler starts to iterate crawl_jobs.items()
ListBegin ==
    /\ listing.pc = "idle"
    /\ listing' = [pc |-> "iterating", size |-> Len(crawl_jobs), pos |-> 0,
                   jobs |-> <<>>, code |-> 0, known |-> job_ids]
    /\ UNCHANGED <<job_vars, crawl_vars, work_vars, hist_vars, poll_vars, fn_vars, other_vars,
                   time_vars, trace, job_id, crawl_jobs, parked, returned>>

\* lines 484-492: the iterator is asked for the next item. It raises
\* RuntimeError when the dict has changed size since the iteration began
\* (the request is answered with 500); at the end of the dict the handler
\* answers with the entries; otherwise one entry is appended.
ListNext ==
    /\ listing.pc = "iterating"
    /\ listing' =
         IF Len(crawl_jobs) # listing.size
           THEN [listing EXCEPT !.pc = "idle", !.code = 500, !.jobs = <<>>]
         ELSE IF listing.pos = listing.size
           THEN [listing EXCEPT !.pc = "idle", !.code = 200]
         ELSE [listing EXCEPT
                 !.pos = @ + 1,
                 !.jobs = Append(@, job_entry(crawl_jobs[listing.pos + 1]))]
    /\ UNCHANGED <<job_vars, crawl_vars, work_vars, hist_vars, poll_vars, fn_vars, other_vars,
                   time_vars, trace, job_id, crawl_jobs, parked, returned>>

\* ---------------------------------------------------------- specification
Worker ==
    \/ StartJob \/ CrawlSiteBegin \/ LogStatus \/ SetupDriverOk \/ SetupDriverFails
    \/ Discover \/ CrawlEnter \/ CrawlFetch \/ CrawlBlogLoop \/ CrawlChildLoop
    \/ CrawlRootReturn \/ CrawlBaseReturn \/ BuildBegin \/ BuildTree
    \/ BuildTreeFails \/ SetCompleted \/ StoreSitemap \/ Except
    \/ ExceptStatus \/ Finally

Poller == PollBegin \/ PollEnd

Next == Worker \/ Poller

\* The job that is polled while it runs: base URL https://example.test/blogs
\* with max_depth 0, so that the root and then the blogs page are crawled.
PollInit == JobInit({ExBlogs}, {0}) /\ NoCall

Spec == PollInit /\ [][Next]_vars

\* The service starts with no job.
ServiceInit ==
    /\ holds(no_generator)
    /\ job_id = 0
    /\ crawl_jobs = <<>>
    /\ parked = EmptyMap
    /\ returned = <<>>
    /\ HandlersIdle
    /\ NoCall

\* Jobs that run side by side on one site: the requests for them
SubmitJob == Submit({ExRoot, ExBlogs}, {0})

JobsNext == SubmitJob \/ Switch \/ Worker

JobsSpec == ServiceInit /\ [][JobsNext]_vars

\* The registry of jobs: requests with a URL that is valid, one without a
\* netloc and one that does not parse; /status requests for the ids 1..3
SubmitRequest == Submit({ExRoot, MailTo, BadUrl}, {0})

GetStatus == \E id \in 1..(MaxJobs + 1) : get_status_begin(id)

\* the threads of jobs on a machine where webdriver.Chrome cannot start
RegistryWorker ==
    \/ StartJob \/ CrawlSiteBegin \/ LogStatus \/ SetupDriverFails
    \/ Except \/ ExceptStatus \/ Finally

RegistryNext ==
    \/ SubmitRequest \/ Switch \/ RegistryWorker
    \/ GetStatus \/ PollEnd \/ ListBegin \/ ListNext

RegistrySpec == ServiceInit /\ [][RegistryNext]_vars

\* is_child_of called on its own with a pair of the URLs below
ChildPaths == {<<>>, <<"about">>, <<"about", "team">>, <<"about", "team", "bio">>,
               <<"team">>, <<"blogs">>, <<"blogs", "2024", "post-1">>,
               <<"blog">>, <<"blog", "2024", "post-1">>}
ChildUrls == {Url(h, p, sl) : h \in {"x.com", "y.com"}, p \in ChildPaths,
                              sl \in BOOLEAN}

ChildInit ==
    /\ JobInit({RootUrl}, {0})
    /\ fn_args \in [fn : {"is_child_of"}, parent : ChildUrls, child : ChildUrls]
    /\ fn_result = <<>>
    /\ OthersIdle

\* lines 168-195: the call returns
CallIsChildOf ==
    /\ fn_args # <<>> /\ fn_args.fn = "is_child_of" /\ fn_result = <<>>
    /\ fn_result' = <<is_child_of(fn_args.parent, fn_args.child)>>
    /\ UNCHANGED <<job_vars, crawl_vars, work_vars, hist_vars, poll_vars, fn_args, other_vars,
                   time_vars, trace, svc_vars>>

ChildSpec == ChildInit /\ [][CallIsChildOf]_vars

\* The end-to-end scenario: base URL https://example.test, max_depth 5.
\* The base URL is the root, so crawl_site makes one top-level call.
ScenarioInit == JobInit({ExRoot}, {5}) /\ NoCall

ScenarioWorker ==
    \/ StartJob \/ CrawlSiteBegin \/ LogStatus \/ SetupDriverOk \/ SetupDriverFails
    \/ Discover \/ CrawlEnter \/ CrawlFetch \/ CrawlBlogLoop \/ CrawlChildLoop
    \/ CrawlRootReturn \/ BuildBegin \/ BuildTree
    \/ BuildTreeFails \/ SetCompleted \/ StoreSitemap \/ Except
    \/ ExceptStatus \/ Finally

ScenarioSpec == ScenarioInit /\ [][ScenarioWorker]_vars

\* Jobs on the third site, from its root and from a page three levels down.
TreeInit == JobInit(TreeBases, 0..MaxDepth) /\ NoCall

TreeSpec == TreeInit /\ [][Worker]_vars

\* Jobs on the fourth site, from the page https://blogs.test/about.
BlogHostInit == JobInit({BAbout}, 1..MaxDepth) /\ NoCall

BlogHostSpec == BlogHostInit /\ [][Worker]_vars

\* The job with nobody polling it. The worker thread keeps running until
\* generate_sitemap returns, and every render call returns or raises.
WorkerSpec == Init /\ [][Worker]_vars /\ WF_vars(Worker)

\* ------------------------------------- screenshot service: _progressive_scroll
\* screenshot_api.py line 90: for _ in range(30)
ScrollCap == 30

\* the scrollable heights the page may have when the call begins
FirstHeights == {1, 2}

\* what a measurement may return after one more scroll step: the page has
\* grown, stayed as it was, or shrunk
measured(last) == {h \in {last - 1, last, last + 1} : h >= 0}

\* variant of scroll_goes_on: the loop ignores the measured height
scroll_goes_on_ignoring_height(steps, new_height, last) == steps < ScrollCap

\* lines 90-97: the loop goes on after a step when the height has grown
\* (no break at line 96) and range(30) is not exhausted
scroll_goes_on(steps, new_height, last) == new_height > last /\ steps < ScrollCap

\* lines 84-86: the first measurement
ScrollMeasure ==
    /\ scroll.pc = "measure"
    /\ \E h \in FirstHeights :
          scroll' = [scroll EXCEPT !.pc = "loop", !.last_height = h]
    /\ UNCHANGED <<job_vars, crawl_vars, work_vars, hist_vars, poll_vars, fn_vars,
                   time_vars, trace, svc_vars, scraper>>

\* lines 90-97: one pass of the loop: scrollBy, sleep, measure, compare
ScrollStep ==
    /\ scroll.pc = "loop"
    /\ \E h \in measured(scroll.last_height) :
          scroll' = [scroll EXCEPT
                       !.steps = @ + 1,
                       !.at_top = FALSE,
                       !.stalled = h <= scroll.last_height,
                       !.last_height = IF h <= @ THEN @ ELSE h,
                       !.pc = IF scroll_goes_on(scroll.steps + 1, h,
                                                scroll.last_height)
                                THEN "loop" ELSE "to_top"]
    /\ UNCHANGED <<job_vars, crawl_vars, work_vars, hist_vars, poll_vars, fn_vars,
                   time_vars, trace, svc_vars, scraper>>

\* lines 100-101: window.scrollTo(0, 0), then the function returns
ScrollToTop ==
    /\ scroll.pc = "to_top"
    /\ scroll' = [scroll EXCEPT !.pc = "returned", !.at_top = TRUE]
    /\ UNCHANGED <<job_vars, crawl_vars, work_vars, hist_vars, poll_vars, fn_vars,
                   time_vars, trace, svc_vars, scraper>>

\* a driver.execute_script call raises: nothing in the function catches it
ScrollRaises ==
    /\ scroll.pc \in {"measure", "loop", "to_top"}
    /\ scroll' = [scroll EXCEPT !.pc = "raised"]
    /\ UNCHANGED <<job_vars, crawl_vars, work_vars, hist_vars, poll_vars, fn_vars,
                   time_vars, trace, svc_vars, scraper>>

progressive_scroll == ScrollMeasure \/ ScrollStep \/ ScrollToTop \/ ScrollRaises

\* /screenshot has loaded a page and calls _progressive_scroll (line 193)
ScrollInit ==
    /\ JobInit({RootUrl}, {0})
    /\ fn_args = <<>> /\ fn_result = <<>>
    /\ scraper = NoScraper
    /\ scroll = [NoScroll EXCEPT !.pc = "measure"]

\* the call runs until it returns or raises: each driver call and each sleep
\* comes to an end
ScrollSpec == ScrollInit /\ [][progressive_scroll]_vars /\ WF_vars(progressive_scroll)

\* --------------------------------------------- text scraper service: one job
\* scraper_api.py. `scraper` holds jobs[job_id] (status, result), the position
\* of the background task run_scraping_task, and the /jobs/{job_id} handler:
\* the status it has read and the last answer it gave.

\* line 126: jobs[job_id]["status"] = "in_progress"
TaskBegin ==
    /\ scraper.pc = "pending"
    /\ scraper' = [scraper EXCEPT !.status = "in_progress", !.pc = "scraping"]
    /\ UNCHANGED <<job_vars, crawl_vars, work_vars, hist_vars, poll_vars, fn_vars,
                   time_vars, trace, svc_vars, scroll>>

\* line 130: scrape_website_text(url) returns the text or raises
Scrape ==
    /\ scraper.pc = "scraping"
    /\ \E next \in {"set_completed", "set_failed"} :
          scraper' = [scraper EXCEPT !.pc = next]
    /\ UNCHANGED <<job_vars, crawl_vars, work_vars, hist_vars, poll_vars, fn_vars,
                   time_vars, trace, svc_vars, scroll>>

\* line 133: jobs[job_id]["status"] = "completed"
TaskSetCompleted ==
    /\ scraper.pc = "set_completed"
    /\ scraper' = [scraper EXCEPT !.status = "completed", !.pc = "store_result"]
    /\ UNCHANGED <<job_vars, crawl_vars, work_vars, hist_vars, poll_vars, fn_vars,
                   time_vars, trace, svc_vars, scroll>>

\* line 134: jobs[job_id]["result"] = {"url": url, "text_content": scraped_text}
TaskStoreResult ==
    /\ scraper.pc = "store_result"
    /\ scraper' = [scraper EXCEPT !.result = "text_content", !.pc = "done"]
    /\ UNCHANGED <<job_vars, crawl_vars, work_vars, hist_vars, poll_vars, fn_vars,
                   time_vars, trace, svc_vars, scroll>>

\* line 140: jobs[job_id]["status"] = "failed"
TaskSetFailed ==
    /\ scraper.pc = "set_failed"
    /\ scraper' = [scraper EXCEPT !.status = "failed", !.pc = "store_error"]
    /\ UNCHANGED <<job_vars, crawl_vars, work_vars, hist_vars, poll_vars, fn_vars,
                   time_vars, trace, svc_vars, scroll>>

\* line 141: jobs[job_id]["result"] = {"error": str(e)}
TaskStoreError ==
    /\ scraper.pc = "store_error"
    /\ scraper' = [scraper EXCEPT !.result = "error", !.pc = "done"]
    /\ UNCHANGED <<job_vars, crawl_vars, work_vars, hist_vars, poll_vars, fn_vars,
                   time_vars, trace, svc_vars, scroll>>

\* lines 174-179: the handler finds the job and reads job["status"]
GetJobBegin ==
    /\ scraper.poll_pc = "idle" /\ scraper.polls < MaxPolls
    /\ scraper' = [scraper EXCEPT !.poll_pc = "reading", !.polls = @ + 1,
                                  !.read_status = scraper.status]
    /\ UNCHANGED <<job_vars, crawl_vars, work_vars, hist_vars, poll_vars, fn_vars,
                   time_vars, trace, svc_vars, scroll>>

\* line 179: then job.get("result"), and the answer is returned
GetJobEnd ==
    /\ scraper.poll_pc = "reading"
    /\ scraper' = [scraper EXCEPT
                     !.poll_pc = "idle",
                     !.answer = <<[status |-> scraper.read_status,
                                   result |-> scraper.result]>>]
    /\ UNCHANGED <<job_vars, crawl_vars, work_vars, hist_vars, poll_vars, fn_vars,
                   time_vars, trace, svc_vars, scroll>>

run_scraping_task ==
    \/ TaskBegin \/ Scrape \/ TaskSetCompleted \/ TaskStoreResult
    \/ TaskSetFailed \/ TaskStoreError

get_job_status == GetJobBegin \/ GetJobEnd

\* lines 150-156: /scrape has stored the job as pending with no result and
\* handed run_scraping_task to the background tasks
ScraperInit ==
    /\ JobInit({RootUrl}, {0})
    /\ fn_args = <<>> /\ fn_result = <<>>
    /\ scroll = NoScroll
    /\ scraper = [NoScraper EXCEPT !.pc = "pending", !.status = "pending"]

\* the background task in its thread, polled by /jobs/{job_id} requests
ScraperSpec == ScraperInit /\ [][run_scraping_task \/ get_job_status]_vars

\* ================================================================ claims
\* the links of a page when nothing fails
site_links(base, u) == extract(base, u, Hrefs(u) \o LazyHrefs(u))

\* the URLs within k link hops of the two traversal roots
RECURSIVE within_hops(_, _)
within_hops(base, k) ==
    IF k = 0 THEN {root_url(base), base}
    ELSE LET near == within_hops(base, k - 1)
         IN  near \cup UNION {site_links(base, u) : u \in near}

\* within_hops for every job input, evaluated once
hops == [b \in BaseUrls |-> [k \in 0..MaxDepth |-> within_hops(b, k)]]

Finished == pc = "done"

\* C1: a started job terminates: it always eventually reaches the end of
\* generate_sitemap with status completed or error, whatever the site graph
\* (link cycles, blog sections), max_depth and base URL.
C1_JobTerminates == <>(Finished /\ status \in {"completed", "error"})

\* a finished crawl from both roots that went round the cycle a <-> a/1 and
\* through the blog section
C1_Witness ==
    /\ Finished /\ status = "completed" /\ base_url = Landing
    /\ {PageA, PageA1, Blogs, PostP1, Landing} \subseteq visited_urls

\* C2: during one job get_page_links runs at most once for each URL.
C2_RenderedAtMostOnce == \A u \in DOMAIN renders : renders[u] <= 1

\* the base URL was already crawled from the root, and a URL linked from
\* several pages, on a cycle and in the blog section was rendered once
C2_Witness ==
    /\ Finished /\ base_url = PageA
    /\ {PageA1, PostP1, PostP2} \subseteq DOMAIN renders
    /\ renders[PageA] = 1

\* C3: visited only grows: every step leaves visited_urls a superset of what
\* it was.
C3_VisitedMonotone == [][visited_urls \subseteq visited_urls']_vars

C3_Witness == Finished /\ Cardinality(visited_urls) >= 5

\* C4: no URL is visited at a depth greater than max_depth, so every visited
\* URL is within max_depth link hops of the root or the base URL.
C4_DepthBounded ==
    \A u \in visited_urls :
        /\ visit_depth[u] <= max_depth
        /\ u \in hops[base_url][max_depth]

\* the crawl stopped at max_depth = 1 on the blogs page, whose posts lie deeper
C4_Witness ==
    /\ Finished /\ max_depth = 1
    /\ Blogs \in visited_urls /\ page_result[Blogs].kind = "ok"
    /\ visit_depth[Blogs] = 1
    /\ PostP1 \notin visited_urls

\* C5: status follows initializing -> starting_crawl -> building_hierarchy ->
\* completed, or goes from a non-terminal status to error, and nothing else.
C5_StatusOrder ==
    [][\/ status' = status
       \/ status = "initializing" /\ status' = "starting_crawl"
       \/ status = "starting_crawl" /\ status' = "building_hierarchy"
       \/ status = "building_hierarchy" /\ status' = "completed"
       \/ status \notin {"completed", "error"} /\ status' = "error"]_vars

C5_Witness == Finished /\ status = "completed" /\ sitemap_data # <<>>

\* C6: a /status response whose status is completed carries the sitemap.
C6_CompletedCarriesSitemap ==
    (poll_pc = "idle" /\ response.status = "completed") => response.has_sitemap

\* C7: with the driver set up, page failures never put the job into status
\* error: only a driver or hierarchy failure does, and unless the hierarchy
\* build itself fails the job reaches completed.
C7_PageFailuresAbsorbed ==
    /\ [](status = "error" => fatal \in {"driver", "hierarchy"})
    /\ (driver = "open" ~> (status = "completed" \/ fatal = "hierarchy"))

\* a page timed out or failed to render, pages were crawled after it, and the
\* job completed
C7_Witness ==
    /\ Finished /\ status = "completed"
    /\ \E u \in DOMAIN page_result :
          /\ page_result[u].kind \in {"timeout", "error"}
          /\ \E i, j \in 1..Len(logs) :
                /\ i < j
                /\ logs[i].text = "Crawling" /\ logs[i].url = u
                /\ logs[j].text = "Crawling" /\ logs[j].url # u

\* the step in which get_page_links ran for the innermost call
Rendered == Crawling /\ Top.pc = "fetch" /\ renders' # renders

\* C8 as claimed: a page whose rendering or link extraction raised
\* contributes no links at all.
C8_FailedPageHasNoLinks ==
    \A u \in DOMAIN page_result :
        page_result[u].kind # "ok" =>
            page_result[u].links = {} /\ url_children[u] = {}

\* C8 amended: when navigation or the wait for the page raises, the page
\* contributes no links (nothing is returned, nothing is added to
\* all_found_urls, url_children[url] is empty); when an element raises during
\* extraction, the links collected before it are kept.
C8_FailedPageLinks ==
    [][Rendered =>
         LET u == Top.url
             r == page_result'[u]
         IN  /\ r.kind \in {"timeout", "error"} =>
                   /\ r.links = {}
                   /\ all_found_urls' = all_found_urls
                   /\ url_children'[u] = {}
             /\ r.kind \in {"extract_error", "scroll_error"} =>
                   /\ r.links \subseteq site_links(base_url, u)
                   /\ all_found_urls' = all_found_urls \cup r.links
                   /\ url_children'[u] = children_of(u, r.links)]_vars

\* a page that has links timed out or failed to load and contributed none
C8_Witness ==
    \E u \in DOMAIN page_result :
        /\ page_result[u].kind \in {"timeout", "error"}
        /\ site_links(base_url, u) # {}
        /\ u \in DOMAIN url_children /\ url_children[u] = {}

\* C9: when the driver cannot be set up the job ends in status error with
\* error set, and nothing was crawled: visited_urls, all_found_urls and
\* url_children are empty, no page was rendered and no sitemap is stored.
C9_DriverFailureIsFatal ==
    fatal = "driver" =>
        /\ visited_urls = {} /\ all_found_urls = {} /\ url_children = EmptyMap
        /\ renders = EmptyMap /\ sitemap_data = <<>>
        /\ error # "None"
        /\ status \in {"starting_crawl", "error"}
        /\ Finished => status = "error"

C9_Witness == Finished /\ fatal = "driver" /\ status = "error"

\* C10 as claimed: visited is a subset of allFoundLinks plus the root.
C10_VisitedFoundOrRoot ==
    visited_urls \subseteq all_found_urls \cup {root_url(base_url)}

\* C10 amended: visited is a subset of allFoundLinks plus the root and the
\* requested base URL.
C10_VisitedFoundOrRoots ==
    visited_urls \subseteq all_found_urls \cup {root_url(base_url), base_url}

\* the base URL differs from the root, no page links to it, and it and pages
\* found through links are visited
C10_Witness ==
    /\ base_url = Landing /\ Landing \in visited_urls
    /\ Landing \notin all_found_urls
    /\ {PageA, PageA1} \subseteq visited_urls

\* C11: in every state of a crawl every key of url_children is a member of
\* visited_urls.
C11_ChildrenKeysVisited == DOMAIN url_children \subseteq visited_urls

\* pages were rendered and their children recorded, one of them with none
C11_Witness ==
    /\ Cardinality(DOMAIN url_children) >= 4
    /\ \E u \in DOMAIN url_children : url_children[u] = {}
    /\ \E u \in DOMAIN url_children : url_children[u] # {}

\* crawl_site has returned: its last line (303) has logged
TraversalFinished == \E i \in 1..Len(logs) : logs[i].text = "Crawl complete"

\* C12: for max_depth >= 0 and a driver that was set up, once the traversal
\* has finished both the root (scheme + host) and the requested base URL are
\* in visited_urls, also when no page links to the base URL and when
\* rendering the root failed.
C12_RootAndBaseVisited ==
    (max_depth >= 0 /\ driver # "none" /\ TraversalFinished) =>
        {root_url(base_url), base_url} \subseteq visited_urls

\* the root failed to render, no page links to the base URL, and both were
\* visited when the traversal finished
C12_Witness ==
    /\ TraversalFinished /\ max_depth >= 0 /\ base_url = Landing
    /\ RootUrl \in DOMAIN page_result
    /\ page_result[RootUrl].kind \in {"timeout", "error"}
    /\ Landing \notin all_found_urls
    /\ {RootUrl, Landing} \subseteq visited_urls

\* C13: is_child_of(parent, child) is true exactly when the network
\* locations are equal and either (a) the parent's path without its trailing
\* slash is empty and the child's is not, or (b) the child's path starts with
\* the parent's path followed by "/" and the parent's path contains "blog" or
\* exactly one segment follows; about -> about/team/bio is false and
\* blogs -> blogs/2024/post-1 is true.
C13_IsChildOf ==
    (fn_args # <<>> /\ fn_args.fn = "is_child_of" /\ fn_result # <<>>) =>
        LET p == fn_args.parent
            c == fn_args.child
            extra == Len(c.path) - Len(p.path)
            starts == extra > 0 /\ SubSeq(c.path, 1, Len(p.path)) = p.path
            blog == \E i \in 1..Len(p.path) : TokHasBlog(p.path[i])
        IN  /\ fn_result[1] =
                  (/\ p.host = c.host
                   /\ \/ Len(p.path) = 0 /\ Len(c.path) > 0
                      \/ starts /\ (blog \/ extra = 1))
            /\ (p.host = c.host /\ p.path = <<"about">>
                   /\ c.path = <<"about", "team", "bio">>) => fn_result[1] = FALSE
            /\ (p.host = c.host /\ p.path = <<"blogs">>
                   /\ c.path = <<"blogs", "2024", "post-1">>) => fn_result[1] = TRUE

\* the call returned for a non-blog parent and a child two segments deeper,
\* with trailing slashes on both
C13_Witness ==
    /\ fn_args # <<>> /\ fn_args.fn = "is_child_of" /\ fn_result = <<FALSE>>
    /\ fn_args.parent = Url("x.com", <<"about">>, TRUE)
    /\ fn_args.child = Url("x.com", <<"about", "team", "bio">>, TRUE)

\* every URL the crawl holds: visited, found, keys and members of url_children
held_urls ==
    visited_urls \cup all_found_urls \cup DOMAIN url_children
      \cup UNION {url_children[k] : k \in DOMAIN url_children}

\* C14: every URL in visited_urls, all_found_urls or url_children, from page
\* links or from sitemap.xml / robots.txt, has the netloc of the base URL; a
\* malformed URL is classified as not same-domain and is dropped: it enters
\* none of the sets, discovery goes on with the entries after it, and no
\* exception reaches generate_sitemap.
C14_SameDomainOnly ==
    /\ \A u \in held_urls : ~parse_fails(u) /\ u.host = base_url.host
    /\ ~is_same_domain(base_url, BadUrl)
    /\ (discovery.done /\ ~discovery.failed) => Hidden \in discovery.urls
    /\ fatal # "page"

\* sitemap.xml and a rendered page both held the malformed URL, next to
\* off-site URLs, and the job completed
C14_Witness ==
    /\ Finished /\ status = "completed" /\ base_url = Landing
    /\ {Landing, RootUrl} \subseteq DOMAIN page_result
    /\ page_result[Landing] = [kind |-> "href_error", links |-> {PageA}]
    /\ page_result[RootUrl].kind = "ok"
    /\ discovery.done /\ ~discovery.failed /\ Hidden \in all_found_urls

\* the items of a tree: a key holding a list, a key holding a nested dict
ListItem(u, entries) ==
    [key |-> path_key(u), kind |-> "list", value |-> <<>>, list |-> entries]
ObjectItem(u, items) ==
    [key |-> path_key(u), kind |-> "object", value |-> items, list |-> <<>>]

\* C15: for base URL https://example.test, max_depth 5 and the site graph
\* / -> {/a, /blogs}, /a -> {/a/1}, /blogs -> {/blogs/p1, /blogs/p2}, a job in
\* which nothing fails ends with visited = {/, /a, /blogs, /a/1, /blogs/p1,
\* /blogs/p2} and the tree {example.test: {example.test/a: {example.test/a/1:
\* []}, example.test/blogs: {example.test/blogs/p1: [], example.test/blogs/p2:
\* []}}}, in whatever order the links of a page are iterated.
C15_EndToEnd ==
    (base_url = ExRoot /\ max_depth = 5 /\ Finished
       /\ failures = 0 /\ fatal = "none") =>
        /\ status = "completed"
        /\ visited_urls = {ExRoot, ExA, ExBlogs, ExA1, ExP1, ExP2}
        /\ sitemap_data =
              << [domain |-> "example.test",
                  tree |-> << ObjectItem(ExA, << ListItem(ExA1, <<>>) >>),
                              ObjectItem(ExBlogs, << ListItem(ExP1, <<>>),
                                                     ListItem(ExP2, <<>>) >>) >>] >>

\* the scenario ran to its end without a failure, the blog posts crawled
\* before the page under /a
C15_Witness ==
    /\ base_url = ExRoot /\ max_depth = 5 /\ Finished
    /\ failures = 0 /\ fatal = "none" /\ sitemap_data # <<>>
    /\ \E i, j \in 1..Len(logs) :
          /\ i < j
          /\ logs[i].text = "Crawling" /\ logs[i].url = ExP2
          /\ logs[j].text = "Crawling" /\ logs[j].url = ExA1

\* the children recorded for a URL (none when it is no key of url_children)
kids_of(u) == IF u \in DOMAIN url_children THEN url_children[u] ELSE {}

\* the item stored under a key of a dict that has it
item_at(tree, k) == tree[CHOOSE i \in 1..Len(tree) : tree[i].key = k]

\* the child whose value a key of url's dict holds: the last child with
\* that key in the order of the loop
item_owner(url, k) ==
    CHOOSE c \in kids_of(url) :
        path_key(c) = k /\ last_with_key(kids_of(url), c) = c

\* every dict of a tree, each with the URL it was built for
RECURSIVE levels(_, _)
levels(url, tree) ==
    {[url |-> url, tree |-> tree]}
      \cup UNION {levels(item_owner(url, tree[i].key), tree[i].value) :
                    i \in {n \in 1..Len(tree) : tree[n].kind = "object"}}

\* the dicts of the tree generate_sitemap has built
built_levels == levels(root_url(base_url), hierarchy[1].tree)

\* the leaf list as the claim describes it
claimed_list(c) ==
    LET cands == IF BlogsInPath(c) THEN all_found_urls ELSE visited_urls
    IN  sorted_keys({path_key(u) :
                       u \in {x \in cands : x # c /\ path_starts_with(x, c)}})

\* C16 as claimed: for every child c without recorded children the list
\* under c's key is exactly the sorted, duplicate-free list of the keys of
\* every candidate u # c whose path starts with path(c) + "/", the candidates
\* being all_found_urls when path(c) contains "blogs" and visited_urls
\* otherwise.
C16_LeafLists ==
    hierarchy # <<>> =>
        \A lv \in built_levels : \A c \in kids_of(lv.url) :
            ~has_children(url_children, c) =>
                /\ item_at(lv.tree, path_key(c)).kind = "list"
                /\ item_at(lv.tree, path_key(c)).list = claimed_list(c)

\* C17 as claimed: the value under a child's key is a nested object exactly
\* when the child has recorded children, and a list otherwise.
C17_ObjectIffChildren ==
    hierarchy # <<>> =>
        \A lv \in built_levels : \A c \in kids_of(lv.url) :
            (item_at(lv.tree, path_key(c)).kind = "object")
                <=> has_children(url_children, c)

\* the keys of a dict in their order
level_keys(tree) == [i \in 1..Len(tree) |-> tree[i].key]

\* a list of key strings in strictly increasing string order
keys_sorted(seq) ==
    \A i \in 1..(Len(seq) - 1) : str_less(key_chars(seq[i]), key_chars(seq[i + 1]))

\* the keys of the children of a URL, in the order of their full URLs
keys_by_child_url(url) ==
    LET cs == sorted_urls(kids_of(url))
    IN  unique([i \in 1..Len(cs) |-> path_key(cs[i])])

\* every iteration order of the two sets gives the tree that was built
same_for_all_orders ==
    \A found \in orders(all_found_urls), vis \in orders(visited_urls) :
        build_hierarchical_sitemap(base_url, url_children, found, vis)
            = hierarchy[1]

lists_sorted ==
    \A lv \in built_levels : \A i \in 1..Len(lv.tree) :
        lv.tree[i].kind = "list" => keys_sorted(lv.tree[i].list)

page_links == UNION {page_result[p].links : p \in DOMAIN page_result}

C20_DiscoveryFailureSwallowed ==
    /\ [][(pc = "discover" /\ discovery'.failed) =>
             /\ status' = status /\ error' = error /\ fatal' = fatal
             /\ pc' = "in_root"
             /\ stack' = <<Frame(root_url(base_url), 0)>>]_vars
    /\ []((discovery.failed /\ TraversalFinished /\ max_depth >= 0) =>
             root_url(base_url) \in visited_urls)
    /\ []((discovery.failed /\ Finished /\ fatal # "hierarchy") =>
             status = "completed" /\ error = "None")

\* a discovery fetch failed, the crawl went on from the root and the job
\* completed
C20_Witness ==
    /\ Finished /\ discovery.failed
    /\ status = "completed" /\ error = "None"
    /\ Cardinality(visited_urls) >= 4 /\ sitemap_data # <<>>

\* the fields of a generator the job shows to its callers
shown(g) ==
    [visited_urls |-> g.visited_urls, all_found_urls |-> g.all_found_urls,
     url_children |-> g.url_children, status |-> g.status, logs |-> g.logs,
     error |-> g.error, sitemap_data |-> g.sitemap_data]

\* what a job with max_depth 0 on https://example.test ends with when it
\* runs alone and nothing fails: the root is rendered, and the base URL
\* when it is not the root
alone_visited(base) == {ExRoot, base}
alone_tree(base) ==
    [domain |-> ExHost,
     tree |-> << ListItem(ExA, <<>>),
                 IF base = ExBlogs
                   THEN ObjectItem(ExBlogs, << ListItem(ExP1, <<>>),
                                              ListItem(ExP2, <<>>) >>)
                   ELSE ListItem(ExBlogs, <<>>) >>]

\* C21: with several jobs running side by side, a step changes the visited
\* URLs, found links, children, status, logs, error and sitemap of no job but
\* the one whose thread takes the step, and a job that ran without a failure
\* ends with the result it has when it runs alone.
C21_JobsIndependent ==
    /\ [][\A id \in Range(crawl_jobs) :
            shown(generator(id))' # shown(generator(id)) =>
                (id = job_id /\ job_id' = job_id)]_vars
    /\ [](\A id \in Range(crawl_jobs) :
            (generator(id).pc = "done" /\ generator(id).failures = 0
               /\ generator(id).fatal = "none") =>
                /\ generator(id).status = "completed"
                /\ generator(id).error = "None"
                /\ generator(id).visited_urls = alone_visited(generator(id).base_url)
                /\ generator(id).sitemap_data = <<alone_tree(generator(id).base_url)>>)

\* two jobs for the same URL: one ran from start to end and completed while
\* the other was in the middle of its crawl
C21_Witness ==
    /\ Len(crawl_jobs) = 2 /\ job_id # 0
    /\ pc = "done" /\ failures = 0 /\ status = "completed"
    /\ \E other \in DOMAIN parked :
          /\ parked[other].base_url = base_url /\ base_url = ExBlogs
          /\ parked[other].pc = "in_base"
          /\ parked[other].visited_urls = {ExRoot, ExBlogs}
          /\ Len(parked[other].logs) < Len(logs)

\* a /status request is answered in this step
Answered == poll_pc = "reading" /\ poll_pc' = "idle"

\* the list s is a prefix of the list t
IsPrefix(s, t) == Len(s) <= Len(t) /\ SubSeq(t, 1, Len(s)) = s

\* C22: of two /status answers for the same job, one after the other, the
\* logs of the earlier are a prefix of the logs of the later, and
\* discovered_urls_count, total_links_found and url_relationships of the
\* later are not smaller than those of the earlier.
C22_PollsMonotone ==
    [][(Answered /\ response.code = 200 /\ response.job_id = response'.job_id) =>
          /\ IsPrefix(response.logs, response'.logs)
          /\ response.discovered_urls_count <= response'.discovered_urls_count
          /\ response.total_links_found <= response'.total_links_found
          /\ response.url_relationships <= response'.url_relationships]_vars

\* the second of two polls was answered while the worker was still running,
\* with both pages visited and their links found
C22_Witness ==
    /\ polls = 2 /\ poll_pc = "idle" /\ response.code = 200
    /\ pc \notin {"start", "done"}
    /\ response.discovered_urls_count = 2
    /\ response.total_links_found = 4
    /\ response.url_relationships = 2
    /\ Len(response.logs) >= 8

\* C23: error is set only on a fatal failure: a step that renders a page or
\* runs the sitemap discovery never sets it, whatever fails in it; error is
\* set only when the driver cannot be set up or the hierarchy build fails; a
\* job whose status is completed has error unset; and once error is set the
\* status is or becomes error.
C23_ErrorOnlyWhenFatal ==
    /\ [][(Rendered \/ pc = "discover") => error' = error]_vars
    /\ [](error # "None" => fatal \in {"driver", "hierarchy"})
    /\ [](status = "completed" => error = "None")
    /\ (error # "None" ~> status = "error")

\* a page failed to render and error stayed unset; later the hierarchy build
\* failed: error was set and the job ended in status error
C23_Witness ==
    /\ Finished /\ fatal = "hierarchy"
    /\ error # "None" /\ status = "error"
    /\ \E u \in DOMAIN page_result : page_result[u].kind \in {"timeout", "error"}

\* C24: a job in status error exposes no sitemap: from the failure of the
\* driver setup or of the hierarchy build on, sitemap_data stays unset, and a
\* /status answer with status error carries no sitemap but the error, the
\* logs as they are and the number of visited URLs.
C24_ErrorHasNoSitemap ==
    /\ [](fatal # "none" => sitemap_data = <<>>)
    /\ [](status = "error" => sitemap_data = <<>>)
    /\ [][(Answered /\ reading.status = "error") =>
             /\ ~response'.has_sitemap /\ response'.sitemap = <<>>
             /\ response'.has_error
             /\ response'.logs = logs
             /\ response'.discovered_urls_count = Cardinality(visited_urls)]_vars

\* the hierarchy build failed after the crawl; a poll of the job in status
\* error was answered with the logs and a count of two visited URLs, without
\* a sitemap
C24_Witness ==
    /\ fatal = "hierarchy" /\ status = "error" /\ poll_pc = "idle"
    /\ response.code = 200 /\ response.status = "error"
    /\ ~response.has_sitemap /\ response.has_error
    /\ response.discovered_urls_count = 2
    /\ \E i \in 1..Len(response.logs) : response.logs[i] = status_entry("error")

\* the log entry that line 202 or line 49 writes for an event of `trace`,
\* without the depth
entry_of(ev) ==
    IF ev.kind = "visit" THEN [text |-> "Crawling", url |-> ev.url]
    ELSE [text |-> status_entry(ev.status).text, url |-> NoUrl]

is_trace_entry(e) ==
    \/ e.text = "Crawling"
    \/ e.text \in {status_entry(st).text :
                     st \in {"starting_crawl", "building_hierarchy",
                             "completed", "error"}}

\* the 'Crawling' and 'Status:' entries of a log, in their order
trace_entries(l) ==
    LET kept == SelectSeq(l, is_trace_entry)
    IN  [i \in 1..Len(kept) |-> [text |-> kept[i].text, url |-> kept[i].url]]

entries_of(tr) == [i \in 1..Len(tr) |-> entry_of(tr[i])]

crawling_entries(l) == Cardinality({i \in 1..Len(l) : l[i].text = "Crawling"})

\* C25 as stated: what a poller is answered has a 'Crawling' entry for every
\* visited URL counted and a 'Status:' entry for the status shown.
C25_AsStated ==
    (poll_pc = "idle" /\ response.code = 200) =>
        /\ response.discovered_urls_count <= crawling_entries(response.logs)
        /\ response.status # "initializing" =>
             \E i \in 1..Len(response.logs) :
                 response.logs[i] = status_entry(response.status)

\* C25, amended: the 'Crawling' and 'Status:' entries of logs are the visits
\* and status assignments of the job in their order, except that the newest
\* status is assigned (line 48) before its entry is written (line 49): until
\* then the entries are those of all events but that last one.  An answer
\* never counts more visited URLs than its logs have 'Crawling' entries.
C25_LogsTraceEvents ==
    /\ IF pc \in DOMAIN after_log
         THEN /\ trace # <<>>
              /\ trace[Len(trace)] = status_event(status)
              /\ trace_entries(logs) = entries_of(SubSeq(trace, 1, Len(trace) - 1))
         ELSE trace_entries(logs) = entries_of(trace)
    /\ \A u \in visited_urls : visit_event(u) \in Range(trace)
    /\ (poll_pc = "idle" /\ response.code = 200) =>
          response.discovered_urls_count <= crawling_entries(response.logs)

\* a poller was answered "building_hierarchy" with two visited URLs and both
\* 'Crawling' entries but no entry for that status, which is still to be logged
C25_Witness ==
    /\ pc = "build_log" /\ status = "building_hierarchy"
    /\ poll_pc = "idle" /\ response.code = 200
    /\ response.status = "building_hierarchy"
    /\ response.discovered_urls_count = 2
    /\ crawling_entries(response.logs) = 2
    /\ \A i \in 1..Len(response.logs) :
           response.logs[i] # status_entry("building_hierarchy")

\* the job ids of the entries of a /jobs answer
listed(jobs) == {jobs[i].job_id : i \in 1..Len(jobs)}

\* C26: the registry only grows; once /generate-sitemap has returned a job
\* id, /status/<job_id> never answers 'Job not found' and every /jobs answer
\* contains that job; an id that was never returned yields 'Job not found'.
\* `listing.known` holds the ids returned before the /jobs request began.
C26_RegistryOnlyGrows ==
    /\ job_ids = Range(crawl_jobs)
    /\ (poll_pc = "idle" /\ response.code = 200) => response.job_id \in job_ids
    /\ poll_pc = "reading" => reading.job_id \in job_ids
    /\ (listing.pc = "idle" /\ listing.code # 0) =>
          listing.known \subseteq listed(listing.jobs)

\* the parts of C26 about the registry and /status: crawl_jobs only grows,
\* and a /status request is answered 'Job not found' exactly when its id is
\* not registered at the lookup of line 449
RegistryGrowsStatusFinds ==
    [][/\ IsPrefix(crawl_jobs, crawl_jobs')
       /\ \A id \in 1..(MaxJobs + 1) :
            (polls' = polls + 1 /\ poll_pc' = "idle" /\ response'.job_id = id) =>
                (response'.code = 404 /\ id \notin job_ids)
       /\ (polls' = polls + 1 /\ poll_pc' = "reading") =>
                reading'.job_id \in job_ids
       /\ Answered => response'.code = 200]_vars

\* generate_sitemap has returned its tree (line 385, then the finally block)
ReturnedNormally == pc = "done" /\ fatal = "none"

C28_ChildrenVisited ==
    TraversalFinished =>
        \A u \in visited_urls :
            /\ u \in DOMAIN visit_depth /\ u \in DOMAIN url_children
            /\ visit_depth[u] < max_depth => url_children[u] \subseteq visited_urls

\* a finished traversal with a URL below max_depth whose children were all
\* visited, and a URL at max_depth with a child that was not
C28_Witness ==
    /\ TraversalFinished /\ max_depth >= 1
    /\ \E u \in visited_urls :
          /\ visit_depth[u] < max_depth
          /\ url_children[u] # {} /\ url_children[u] \subseteq visited_urls
    /\ \E v \in visited_urls :
          /\ visit_depth[v] = max_depth
          /\ ~(url_children[v] \subseteq visited_urls)

\* C29: for every visited URL u whose page has been read, url_children[u] is
\* exactly the set of the links get_page_links returned for u that
\* is_child_of(u, link) accepts; it is a subset of all_found_urls, does not
\* contain u, and is empty for a page that yielded no links.  Once the
\* traversal has finished every visited URL has its entry.
C29_ChildrenAreChildLinks ==
    /\ DOMAIN url_children = DOMAIN page_result
    /\ DOMAIN url_children \subseteq visited_urls
    /\ TraversalFinished => DOMAIN url_children = visited_urls
    /\ \A u \in DOMAIN url_children :
          /\ url_children[u] = {l \in page_result[u].links : is_child_of(u, l)}
          /\ url_children[u] \subseteq all_found_urls
          /\ u \notin url_children[u]
          /\ page_result[u].links = {} => url_children[u] = {}

\* a page with links of which some are children and some are not, one of
\* these being another URL string of the page's own path; and a page that
\* yielded no links
C29_Witness ==
    /\ \E u \in DOMAIN url_children :
          /\ url_children[u] # {}
          /\ \E l \in page_result[u].links \ url_children[u] :
                l.host = u.host /\ l.path = u.path
    /\ \E v \in DOMAIN url_children : page_result[v].links = {}

\* the calls of crawl_recursive that are active: caller and callee
active_calls ==
    {[from |-> stack[i], to |-> stack[i + 1].url] : i \in 1..(Len(stack) - 1)}

\* C30: crawl_recursive calls itself for a link that is not a child of the
\* current URL only when the path of the current URL contains 'blogs', the
\* current depth is below 3 and the link contains '/blogs/'.
C30_DeepeningOnlyFromBlogsPath ==
    \A c \in active_calls :
        ~is_child_of(c.from.url, c.to) =>
            /\ BlogsInPath(c.from.url)
            /\ c.from.depth < BlogDepthLimit
            /\ SlashBlogsSlashIn(c.to)

\* the same with the test of line 218, which looks at the whole URL string
DeepeningOnlyFromBlogsUrl ==
    \A c \in active_calls :
        ~is_child_of(c.from.url, c.to) =>
            /\ BlogsInUrl(c.from.url)
            /\ c.from.depth < BlogDepthLimit
            /\ SlashBlogsSlashIn(c.to)

\* parsed.path ends with one of the extensions of lines 105, 131
PathEndsAsset(u) ==
    ~u.slash /\ Len(u.path) > 0 /\ TokEndsAsset(u.path[Len(u.path)])

\* C31: every URL get_page_links returned for a page is same-domain, has no
\* fragment, differs from the page's URL and has a path that does not end
\* with a non-content extension, also when it carries a query string; and a
\* link of a fully read page is not dropped because of its query string.
C31_LinksFiltered ==
    \A u \in DOMAIN page_result :
        /\ \A l \in page_result[u].links :
              /\ is_same_domain(base_url, l)
              /\ l.frag = ""
              /\ l # u
              /\ ~PathEndsAsset(l)
        /\ page_result[u].kind = "ok" =>
              \A h \in Range(Hrefs(u)) :
                  (/\ is_same_domain(base_url, h)
                   /\ h.scheme \in {"http", "https"}
                   /\ clean_url(h) # u
                   /\ ~PathEndsAsset(h)) => clean_url(h) \in page_result[u].links

\* the same with the test of lines 105 and 131, which looks at the end of the
\* whole URL string
LinksFilteredByString ==
    \A u \in DOMAIN page_result :
        /\ \A l \in page_result[u].links :
              /\ is_same_domain(base_url, l)
              /\ l.frag = ""
              /\ l # u
              /\ ~EndsWithAsset(l)
        /\ page_result[u].kind = "ok" =>
              \A h \in Range(Hrefs(u)) :
                  (/\ is_same_domain(base_url, h)
                   /\ h.scheme \in {"http", "https"}
                   /\ clean_url(h) # u
                   /\ ~EndsWithAsset(clean_url(h))) =>
                        clean_url(h) \in page_result[u].links

\* C32: _progressive_scroll makes at most 30 scroll steps, makes no step
\* after the first one whose measured height is not greater than the previous
\* one, scrolls back to the top when the loop is left, and comes to an end
\* also on a page that grows after every step.
C32_ScrollBounded ==
    /\ [](scroll.steps <= ScrollCap)
    /\ [](scroll.stalled => scroll.pc # "loop")
    /\ [](scroll.pc = "to_top" => (scroll.stalled \/ scroll.steps = ScrollCap))
    /\ [](scroll.pc = "returned" => scroll.at_top)
    /\ [][scroll'.pc = "returned" => scroll.pc = "to_top"]_vars
    /\ <>(scroll.pc \in {"returned", "raised"})

\* the page grew after every one of the 30 steps and the call returned at the
\* top of the page
C32_Witness ==
    /\ scroll.pc = "returned" /\ scroll.steps = ScrollCap
    /\ ~scroll.stalled /\ scroll.at_top
    /\ scroll.last_height >= ScrollCap

\* the URLs reached from the set S along url_children, S included
RECURSIVE reached_from(_, _)
reached_from(kids, S) ==
    LET T == S \cup UNION {kids[u] : u \in S \cap DOMAIN kids}
    IN  IF T = S THEN S ELSE reached_from(kids, T)

\* C33: url_children is acyclic in every state of a crawl: a child is on its
\* parent's host with a strictly longer slash-stripped path, so no URL is its
\* own descendant; and the hierarchy build, which recurses along
\* url_children, comes to an end.
C33_ChildrenAcyclic ==
    /\ [](\A u \in DOMAIN url_children : \A c \in url_children[u] :
              c.host = u.host /\ Len(c.path) > Len(u.path))
    /\ [](\A u \in DOMAIN url_children :
              u \notin reached_from(url_children, url_children[u]))
    /\ (pc = "build_tree" ~> pc # "build_tree")

\* the page a/1 links back to its parent a; a/1 is a child of a and a is not
\* a child of a/1, and the tree was built
C33_Witness ==
    /\ Finished /\ status = "completed" /\ sitemap_data # <<>>
    /\ PageA1 \in DOMAIN page_result /\ PageA \in page_result[PageA1].links
    /\ PageA1 \in url_children[PageA]
    /\ PageA \notin url_children[PageA1]

\* the visited URLs that have no entry in url_children
unrecorded == visited_urls \ DOMAIN url_children

\* C34: during a crawl at most one visited URL has no entry in url_children,
\* and it is the URL whose links are being fetched; when the traversal has
\* finished the keys of url_children are the visited URLs, pages whose
\* rendering failed included.
C34_OneUnrecorded ==
    /\ DOMAIN url_children \subseteq visited_urls
    /\ Cardinality(unrecorded) <= 1
    /\ unrecorded # {} =>
          /\ Crawling /\ Top.pc = "fetch" /\ unrecorded = {Top.url}
    /\ TraversalFinished => DOMAIN url_children = visited_urls

\* a finished traversal of three URLs or more in which the rendering of one
\* page failed: that page has an entry, the empty set
C34_Witness ==
    /\ TraversalFinished /\ Cardinality(visited_urls) >= 3
    /\ DOMAIN url_children = visited_urls
    /\ \E u \in visited_urls :
          /\ page_result[u].kind \in {"timeout", "error"}
          /\ url_children[u] = {}

\* every key and every leaf-list entry of a tree, at all levels
RECURSIVE tree_entries(_)
tree_entries(tree) ==
    UNION {{tree[i].key} \cup Range(tree[i].list) \cup tree_entries(tree[i].value) :
             i \in 1..Len(tree)}

\* the keys of the URLs the crawl has observed
observed_keys == {path_key(u) : u \in all_found_urls \cup visited_urls}

\* C35: every key and every leaf-list entry of the tree built, below the
\* top-level domain key, is the key (netloc + path) of a URL in
\* all_found_urls or visited_urls.
C35_TreeOnlyObserved ==
    /\ hierarchy # <<>> => tree_entries(hierarchy[1].tree) \subseteq observed_keys
    /\ sitemap_data # <<>> => tree_entries(sitemap_data[1].tree) \subseteq observed_keys

\* a stored tree with a nested dict and a leaf list holding the key of a URL
\* that was found (in /sitemap.xml or on a page) but never visited
C35_Witness ==
    /\ sitemap_data # <<>> /\ status = "completed"
    /\ \E i \in 1..Len(sitemap_data[1].tree) :
          sitemap_data[1].tree[i].kind = "object"
    /\ \E lv \in built_levels : \E i \in 1..Len(lv.tree) :
          \E k \in Range(lv.tree[i].list) :
              k \notin {path_key(u) : u \in visited_urls}

\* C36: after a completed crawl every visited URL other than the root
\* appears in the stored tree under its key, as a key or as a leaf-list
\* entry; stated here for the jobs in which no render and no fetch failed.
C36_VisitedInTree ==
    (Finished /\ status = "completed" /\ sitemap_data # <<>> /\ failures = 0) =>
        \A u \in visited_urls \ {root_url(base_url)} :
            path_key(u) \in tree_entries(sitemap_data[1].tree)

\* The crawl with every loop iterating in string order and nothing failing:
\* crawl_recursive(url, depth) applied to the sets `st` (visited, found,
\* children), and its two loops over the rest `todo` of a sorted list.
RECURSIVE crawl_in_order(_, _, _, _, _)
RECURSIVE loop_in_order(_, _, _, _, _, _)
loop_in_order(base, md, depth, todo, blog, st) ==
    IF todo = <<>> THEN st
    ELSE LET x  == Head(todo)
             go == IF blog THEN blog_target(base, x, st.vis) ELSE x \notin st.vis
         IN  loop_in_order(base, md, depth, Tail(todo), blog,
                           IF go THEN crawl_in_order(base, md, x, depth + 1, st)
                                 ELSE st)

crawl_in_order(base, md, url, depth, st) ==
    IF skip_crawl(url, depth, st.vis, md) THEN st
    ELSE LET links == site_links(base, url)
             kids  == children_of(url, links)
             here  == [vis |-> add_visited(st.vis, url),
                       found |-> update_found(st.found, links),
                       kids |-> record_children(st.kids, url, kids)]
         IN  loop_in_order(base, md, depth, sorted_urls(kids), FALSE,
                 IF deepen_blogs(url, depth)
                   THEN loop_in_order(base, md, depth, sorted_urls(links), TRUE, here)
                   ELSE here)

\* crawl_site in that order, after a discovery that found `disc`
site_in_order(base, md, disc) ==
    LET st0 == [vis |-> {}, found |-> disc, kids |-> EmptyMap]
        st1 == crawl_in_order(base, md, root_url(base), 0, st0)
    IN  IF base # root_url(base) THEN crawl_in_order(base, md, base, 0, st1)
        ELSE st1

\* C37: for a fixed site, base URL and max_depth, a job in which nothing
\* fails ends with the same visited_urls, url_children and tree whatever the
\* order in which the links and children of a page are iterated: the same as
\* the job that iterates them in string order.
C37_OrderIndependent ==
    (Finished /\ status = "completed" /\ sitemap_data # <<>> /\ failures = 0) =>
        LET ref == site_in_order(base_url, max_depth, discovery.urls)
        IN  /\ visited_urls = ref.vis
            /\ url_children = ref.kids
            /\ sitemap_data[1] =
                 build_hierarchical_sitemap(base_url, ref.kids,
                     sorted_urls(ref.found), sorted_urls(ref.vis))

\* the job that iterates in string order is one of the jobs: its result is
\* reached
InOrderJobReached ==
    /\ Finished /\ status = "completed" /\ sitemap_data # <<>> /\ failures = 0
    /\ max_depth = 2
    /\ visited_urls = site_in_order(base_url, max_depth, discovery.urls).vis
    /\ url_children = site_in_order(base_url, max_depth, discovery.urls).kids

\* C38: a job whose browser session was opened has it closed in the end, on
\* the completed path and on the error path; pages are rendered only while
\* the session is open, and a closed session stays closed.
C38_SessionClosed ==
    /\ (driver = "open" ~> driver = "closed")
    /\ [](pc = "done" => driver # "open")
    /\ [][driver = "closed" => driver' = "closed"]_vars
    /\ [][(renders' # renders \/ page_result' # page_result) =>
             (driver = "open" /\ driver' = "open")]_vars

\* the hierarchy build failed after pages had been rendered: the job ended
\* in status error with its session closed
C38_Witness ==
    /\ pc = "done" /\ status = "error" /\ fatal = "hierarchy"
    /\ driver = "closed" /\ DOMAIN renders # {}

\* C39: a text-scraper job polled while its background task runs: an answer
\* with status completed holds the text_content, an answer with status failed
\* holds the error, and the job's status is never completed or failed while
\* its result is still null.
C39_ResultWithStatus ==
    /\ scraper.status \in {"completed", "failed"} => scraper.result # "null"
    /\ scraper.answer # <<>> =>
          /\ scraper.answer[1].status = "completed" =>
                scraper.answer[1].result = "text_content"
          /\ scraper.answer[1].status = "failed" =>
                scraper.answer[1].result = "error"

\* the part of C39 about the order of the status values: pending, then
\* in_progress, then completed or failed
ScraperStatusOrder ==
    [][scraper'.status # scraper.status =>
          \/ scraper.status = "pending" /\ scraper'.status = "in_progress"
          \/ scraper.status = "in_progress"
               /\ scraper'.status \in {"completed", "failed"}]_vars

\* a poll was answered with status completed and no result
CompletedAnsweredWithoutResult ==
    /\ scraper.answer # <<>>
    /\ scraper.answer[1] = [status |-> "completed", result |-> "null"]

====
